---- MODULE Spec2Model ----
(***************************************************************************)
(* State-machine model of the AskHR Workday assistant:                     *)
(*   - WorkdayToolsService.chat, the retry/backoff proxy of the RAG agent  *)
(*     (src/ask_hr_agent/rag_agent/app/services/workday_tools.py);         *)
(*   - the credential cache, the tool functions, reset_auth_cache, the     *)
(*     verification letter and chat_with_workday of                        *)
(*     src/workday_tools_agent/agent.py, and the conversation loop of      *)
(*     src/ask_hr_ai_agent_adk/agent.py where it differs;                  *)
(*   - the document cache of src/workday_tools_agent/doc_generator.py and  *)
(*     the download route of the servers;                                  *)
(*   - the session store and POST /message of                              *)
(*     src/ask_hr_agent/rag_agent/app/routers/chat.py.                     *)
(* SpecProxy runs the proxy, SpecCred the credential cache with the tool   *)
(* functions and the reset, SpecChat the conversation loop, SpecTurns and  *)
(* SpecLetterChat parts of it, SpecAdk the loop of the ADK agent,          *)
(* SpecEvlSeq and SpecEvl the requests for the verification letter,        *)
(* SpecRestart the credential cache across starts of the process,          *)
(* SpecThreads credential requests of concurrent threads, SpecLoop the     *)
(* conversation loop under fairness, SpecAuthWait the wait for the browser *)
(* authorization,                                                          *)
(* SpecDocs the document cache, SpecSessions the sessions of the RAG agent  *)
(* in front of the tool service.                                           *)
(***************************************************************************)
EXTENDS Integers, Sequences, FiniteSets, TLC

VARIABLES
    \* ---- WorkdayToolsService.chat._post ----
    ppc,            \* position in _post: idle, head, post, decide, poll, returned, raised
    pnow,           \* time.time(), in clock ticks
    budget,         \* settings.WORKDAY_TOOLS_TIMEOUT_SECONDS of this call
    deadline,       \* local deadline, in clock ticks
    attempts,       \* local attempts
    remaining,      \* local remaining: the per-attempt timeout, in seconds
    tokenCacheFile, \* self._token_cache_path.exists()
    posts,          \* number of requests.post calls issued by this call
    lastOutcome,    \* outcome of the latest requests.post
    allTimeout,     \* every requests.post so far ended in requests Timeout
    presult,        \* what chat returned: none, reply, sentinel
    \* ---- agent.py: credential cache ----
    now,            \* time.time() of the agent process, in seconds
    memo,           \* the lru_cache(maxsize=1) entry of _get_cached_workday_data
    snapshot,       \* the file TOKEN_CACHE_PATH (.token_cache.json)
    legacyFile,     \* LEGACY_TOKEN_CACHE_PATH (.token_cache.pkl) exists
    auths,          \* number of runs of complete_oauth_flow so far
    \* ---- agent.py: session globals ----
    chat_history,   \* _chat_history
    user_context,   \* _user_context is set
    submission_complete, \* _submission_complete
    evl_sent_to_hr, \* _evl_sent_to_hr
    evlFlagFile,    \* EVL_SENT_FLAG_PATH (.evl_sent.flag) exists
    renders,        \* documents rendered into the document cache so far
    letters,        \* verification letters rendered since the latest call of /reset
    \* ---- agent.py: requests for the verification letter in flight ----
    epc,            \* per request thread: idle, tool, render, chatret
    evia,           \* per request thread: how it came in, chat or tool
    \* ---- agent.py: one call of chat_with_workday ----
    cpc,            \* idle, model (about to call generate_content), dispatch
    pending,        \* tool calls of the current response not yet dispatched
    turnMsg,        \* user_message of the current (or latest) turn
    summaryBefore,  \* the model turn preceding this turn showed a summary
    submits,        \* submit_time_off_tool invocations in this turn
    iters,          \* generate_content calls in this turn
    turns,          \* calls of chat_with_workday so far
    last,           \* the latest completed operation and what it returned
    \* ---- doc_generator.py: document cache ----
    document_cache, \* _document_cache: doc_key -> [bytes, filename]
    docClock,       \* datetime.now().timestamp() as read by the generator
    docLast,        \* the latest document operation and what it returned
    \* ---- rag_agent routers/chat.py: sessions and POST /message ----
    sessions,       \* the dict sessions: session_id -> its "history" list
    requests,       \* the POST /message requests so far, in arrival order
    owners,         \* per entry of _chat_history, the request whose turn
                    \* appended it (kept to state properties; not in the code)
    \* ---- agent.py: credential requests of concurrent threads ----
    gpc,            \* per thread, its position in _get_cached_workday_data
    grec,           \* per thread, the record it obtained
    resetMemo,      \* the memo as reset_auth_cache found it when it ran during
                    \* the turn in progress (kept to state properties)
    \* ---- workday_api.py: one call of get_auth_code ----
    wpc,            \* idle, get (driver.get), loop (the wait loop), done
    wceil,          \* max_wait_time, in seconds
    wclock,         \* time.time() - start_time, in half seconds
    wurl,           \* what the latest read of driver.current_url gave
    wdriver,        \* the browser session: none, open, closed
    wres,           \* how get_auth_code ended
    \* ---- pure functions ----
    call            \* a function, its arguments and what it returned

pvars == <<ppc, pnow, budget, deadline, attempts, remaining, tokenCacheFile,
           posts, lastOutcome, allTimeout, presult>>

credvars == <<now, memo, snapshot, legacyFile, auths>>

sessvars == <<chat_history, user_context, submission_complete, evl_sent_to_hr,
              evlFlagFile, renders, letters>>

evlvars == <<epc, evia>>

turnvars == <<cpc, pending, turnMsg, summaryBefore, submits, iters, turns>>

avars == <<credvars, sessvars, turnvars, evlvars, last>>

docvars == <<document_cache, docClock, docLast>>

rvars == <<sessions, requests, owners>>

tvars == <<gpc, grec>>

wvars == <<wpc, wceil, wclock, wurl, wdriver, wres>>

cvars == <<tvars, resetMemo, wvars, call>>

vars == <<pvars, avars, docvars, rvars, cvars>>

-----------------------------------------------------------------------------
(* Bounds of the model *)

\* clock resolution: ticks per second of time.time()
TicksPerSec == 2
\* largest WORKDAY_TOOLS_TIMEOUT_SECONDS explored (the shipped default is 300)
MaxBudget == 4

\* documents the cache may hold, and readings of the generator's clock
MaxDocs == 2

(* Program constants *)

\* interval_seconds of _wait_for_token_cache
PollInterval == 2
\* time.sleep(2) before the retry when the snapshot already exists
RetryPause == 2
\* max(1, ...): the smallest per-attempt timeout
MinTimeout == 1

Max(a, b) == IF a >= b THEN a ELSE b

\* Python int(x) of x = n / TicksPerSec seconds: truncation toward zero
IntSeconds(n) == IF n >= 0 THEN n \div TicksPerSec ELSE -((-n) \div TicksPerSec)

\* remaining = max(1, int(deadline - time.time()))
Remaining(dl, t) == Max(MinTimeout, IntSeconds(dl - t))

\* outcomes of one requests.post: a reply, a requests Timeout, a connection
\* error, a non-2xx response (HTTPError raised by _post itself), a 2xx response
\* whose body does not parse or does not yield a ChatResponse
PostOutcomes == {"ok", "timeout", "conn_error", "http_error", "bad_body"}

\* mutant: only requests' own exceptions are caught
CaughtRequestsOnly(o) == o \in {"timeout", "conn_error", "http_error"}

\* except Timeout / except Exception: every failure of the attempt is caught
Caught(o) == o \in {"timeout", "conn_error", "http_error", "bad_body"}

\* mutant: the deadline is not consulted before retrying
RetriesExhaustedNoDeadline(att, t, dl) == att >= 1

\* mutant: the deadline itself does not count as passed
RetriesExhaustedAfterDeadline(att, t, dl) == att >= 1 \/ t > dl

\* mutant: one retry too many
RetriesExhaustedLate(att, t, dl) == att > 1 \/ t >= dl

\* if attempts >= 1 or time.time() >= deadline: break
RetriesExhausted(att, t, dl) == att >= 1 \/ t >= dl

InitProxyVars ==
    /\ ppc = "idle"
    /\ pnow = 0
    /\ budget = 0
    /\ deadline = 0
    /\ attempts = 0
    /\ remaining = 0
    /\ tokenCacheFile \in BOOLEAN
    /\ posts = 0
    /\ lastOutcome = "none"
    /\ allTimeout = TRUE
    /\ presult = "none"

\* chat is called: deadline = time.time() + budget; attempts = 0.  The clock
\* moves on by less than a second before the loop reads it again.
ProxyCall ==
    /\ ppc = "idle"
    /\ \E b \in 0..MaxBudget, eps \in 0..(TicksPerSec - 1) :
        /\ budget' = b
        /\ deadline' = pnow + b * TicksPerSec
        /\ pnow' = pnow + eps
    /\ attempts' = 0
    /\ ppc' = "head"
    /\ UNCHANGED <<remaining, tokenCacheFile, posts, lastOutcome, allTimeout, presult>>

\* loop head: remaining = max(1, int(deadline - time.time()))
ProxyLoopHead ==
    /\ ppc = "head"
    /\ remaining' = Remaining(deadline, pnow)
    /\ ppc' = "post"
    /\ UNCHANGED <<pnow, budget, deadline, attempts, tokenCacheFile, posts,
                   lastOutcome, allTimeout, presult>>

\* requests.post(url, json=..., timeout=remaining) and the handling of its
\* result.  A Timeout is raised when the timeout has elapsed; every other
\* outcome arrives within it.
ProxyPost ==
    /\ ppc = "post"
    /\ \E o \in PostOutcomes, d \in 0..(remaining * TicksPerSec) :
        /\ (o = "timeout") => (d = remaining * TicksPerSec)
        /\ pnow' = pnow + d
        /\ lastOutcome' = o
        /\ allTimeout' = (allTimeout /\ o = "timeout")
        /\ IF o = "ok"
             THEN /\ ppc' = "returned"
                  /\ presult' = "reply"
             ELSE /\ ppc' = IF Caught(o) THEN "decide" ELSE "raised"
                  /\ presult' = presult
    /\ posts' = posts + 1
    /\ UNCHANGED <<budget, deadline, attempts, remaining, tokenCacheFile>>

\* after a failed attempt: break, or wait for the snapshot, or pause 2 s
ProxyDecide ==
    /\ ppc = "decide"
    /\ IF RetriesExhausted(attempts, pnow, deadline)
         THEN /\ ppc' = "returned"
              /\ presult' = "sentinel"
              /\ UNCHANGED <<pnow, attempts>>
         ELSE IF ~tokenCacheFile
           THEN /\ ppc' = "poll"
                /\ UNCHANGED <<pnow, attempts, presult>>
           ELSE /\ pnow' = pnow + RetryPause * TicksPerSec
                /\ attempts' = attempts + 1
                /\ ppc' = "head"
                /\ UNCHANGED presult
    /\ UNCHANGED <<budget, deadline, remaining, tokenCacheFile, posts,
                   lastOutcome, allTimeout>>

\* one round of _wait_for_token_cache(deadline)
ProxyPoll ==
    /\ ppc = "poll"
    /\ IF pnow < deadline
         THEN IF tokenCacheFile
                THEN /\ attempts' = attempts + 1
                     /\ ppc' = "head"
                     /\ UNCHANGED <<pnow, presult>>
                ELSE /\ pnow' = pnow + PollInterval * TicksPerSec
                     /\ UNCHANGED <<ppc, attempts, presult>>
         ELSE /\ ppc' = "returned"
              /\ presult' = "sentinel"
              /\ UNCHANGED <<pnow, attempts>>
    /\ UNCHANGED <<budget, deadline, remaining, tokenCacheFile, posts,
                   lastOutcome, allTimeout>>

\* the tool service writes the snapshot (login finished) or deletes it (reset)
\* while the proxy is waiting
SnapshotChanges ==
    /\ ppc \in {"decide", "poll"}
    /\ tokenCacheFile' = ~tokenCacheFile
    /\ UNCHANGED <<ppc, pnow, budget, deadline, attempts, remaining, posts,
                   lastOutcome, allTimeout, presult>>

-----------------------------------------------------------------------------
(* agent.py: the credential cache *)

\* latest second of the agent's clock explored
MaxTime == 3
\* most runs of the authorization flow explored
MaxAuth == 1
\* widest freshness window explored: expires_in ranges over 121 .. 120 + MaxWindow,
\* the lifetimes with which a token is fresh at the moment it is issued
MaxWindow == 2

\* the safety margin of the freshness test
SafetyMargin == 120

\* expires_in values the token endpoint hands out
ExpiresChoices == {SafetyMargin + w : w \in 1..MaxWindow}

NoRecord == [kind |-> "none", tok |-> 0, ts |-> 0, exp |-> 0]
Absent == [kind |-> "absent", tok |-> 0, ts |-> 0, exp |-> 0]
\* a snapshot file json.load cannot read (truncated by a failed write)
Corrupt == [kind |-> "corrupt", tok |-> 0, ts |-> 0, exp |-> 0]
\* the record of token tok with _token_timestamp ts and _token_expires_in exp
Rec(tok, ts, exp) == [kind |-> "rec", tok |-> tok, ts |-> ts, exp |-> exp]

\* mutant: the boundary second counts as fresh
IsFreshInclusive(r, t) == (t - r.ts) <= (r.exp - SafetyMargin)

\* if (time.time() - token_timestamp) < (token_expires_in - 120)
IsFresh(r, t) == (t - r.ts) < (r.exp - SafetyMargin)

\* what complete_oauth_flow and the write of the snapshot can do: flow_raises
\* is an exception before the snapshot file is opened for writing, write_fails
\* one after open(..., 'w') has truncated it
AuthOutcomes == {"ok", "flow_raises", "write_fails"}

\* mutant: the failed flow leaves a partial record memoized
FlowRaisedKeepsPartial(s, tok, t) ==
    [memo |-> Rec(tok, t, 0), snap |-> s, how |-> "flow_raised", rec |-> NoRecord]

\* complete_oauth_flow raised: cache_clear(), raise ValueError('OAuth flow
\* failed'); the snapshot file is not opened
FlowRaised(s, tok, t) ==
    [memo |-> NoRecord, snap |-> s, how |-> "flow_raised", rec |-> NoRecord]

\* _get_workday_data() -> _get_cached_workday_data(): the memoized record if
\* there is one; else the snapshot if it reads and is fresh; else the
\* authorization flow, whose record is stamped, written and memoized.
\* how: memo, snapshot, flow (a record is returned), flow_raised, write_failed
\* (ValueError is raised).
CredRequest(m, s, t, ao, ex, tok) ==
    IF m.kind = "rec"
      THEN [memo |-> m, snap |-> s, how |-> "memo", rec |-> m]
    ELSE IF s.kind = "rec" /\ IsFresh(s, t)
      THEN [memo |-> s, snap |-> s, how |-> "snapshot", rec |-> s]
    ELSE IF ao = "ok"
      THEN [memo |-> Rec(tok, t, ex), snap |-> Rec(tok, t, ex), how |-> "flow",
            rec |-> Rec(tok, t, ex)]
    ELSE IF ao = "flow_raises"
      THEN FlowRaised(s, tok, t)
    ELSE [memo |-> NoRecord, snap |-> Corrupt, how |-> "write_failed", rec |-> NoRecord]

CredOk(c) == c.how \in {"memo", "snapshot", "flow"}
RanFlow(c) == c.how \in {"flow", "flow_raised", "write_failed"}

\* what the HR API answers to a tool's request: 200/201, 401 or 403, another
\* status or a connection error (handled on the very path of 401/403), a timeout
HrOutcomes == {"ok", "unauthorized", "timeout"}

\* the runs of the authorization flow: its outcome and, when it succeeds, the
\* expires_in of the token
FlowRuns == {<<"ok", ex>> : ex \in ExpiresChoices}
            \cup {<<ao, SafetyMargin + 1>> : ao \in AuthOutcomes \ {"ok"}}

\* the runs of the flow a credential request can meet: the flow is only
\* called when nothing is memoized and the snapshot is not fresh
FlowRunsAt(m, s, t) ==
    IF m.kind = "rec" \/ (s.kind = "rec" /\ IsFresh(s, t))
      THEN {<<"ok", SafetyMargin + 1>>}
      ELSE FlowRuns

\* the arguments of a tool call: usable, a leave type that does not resolve
\* to a 32-hex id, a date strptime rejects
ArgKinds == {"valid", "bad_type", "bad_dates"}

\* a tool call's arguments and, when they are usable, the HR API's answer
ToolInputs == {<<"valid", hr>> : hr \in HrOutcomes}
              \cup {<<a, "none">> : a \in ArgKinds \ {"valid"}}

\* the inputs that matter to a tool: only check_valid_dates and
\* submit_time_off take arguments and call the HR API with them
ToolInputsOf(tool) ==
    IF tool \in {"check_valid_dates", "submit_time_off"}
      THEN ToolInputs
      ELSE {<<"valid", "none">>}

\* the HR API's answer the tool got to see
HrSeen(c, a) == IF c.how \in {"memo", "snapshot", "flow"} THEN a[2] ELSE "none"

\* get_workday_id(): the profile JSON, or {"success": False, "error": ...}
GetWorkdayId(c) ==
    [memo |-> c.memo, snap |-> c.snap,
     res |-> IF CredOk(c) THEN "profile" ELSE "error"]

\* check_valid_dates(): every ValueError (failed flow, unresolved type, no
\* endpoint answering 200) ends in cache_clear(); the snapshot file stays
CheckValidDates(c, args, hr) ==
    IF ~CredOk(c)
      THEN [memo |-> NoRecord, snap |-> c.snap, res |-> "auth_error"]
    ELSE IF args # "valid"
      THEN [memo |-> NoRecord, snap |-> c.snap, res |-> "validation_error"]
    ELSE IF hr = "ok"
      THEN [memo |-> c.memo, snap |-> c.snap, res |-> "valid_dates"]
    ELSE [memo |-> NoRecord, snap |-> c.snap, res |-> "validation_error"]

\* mutant: a timed-out POST is taken for an accepted request
SubmitTimeOffTimeoutAccepted(c, args, hr) ==
    IF ~CredOk(c) \/ args # "valid"
      THEN [memo |-> NoRecord, snap |-> c.snap, res |-> "auth_expired"]
    ELSE [memo |-> c.memo, snap |-> c.snap,
          res |-> IF hr \in {"ok", "timeout"} THEN "submitted" ELSE "http_failure"]

\* submit_time_off(): a ValueError (failed flow, unresolved type, bad date
\* format) ends in cache_clear() and 'Authentication expired'; every HTTP
\* outcome comes back from submit_time_off_request as a result dict
SubmitTimeOff(c, args, hr) ==
    IF ~CredOk(c) \/ args # "valid"
      THEN [memo |-> NoRecord, snap |-> c.snap, res |-> "auth_expired"]
    ELSE [memo |-> c.memo, snap |-> c.snap,
          res |-> IF hr = "ok" THEN "submitted"
                  ELSE IF hr = "timeout" THEN "timeout" ELSE "http_failure"]

\* the "success" field of the payload submit_time_off returns
SubmitSucceeded(res) == res = "submitted"

\* what the profile holds for the hire date: an ISO date in the past, none
\* of the five service-date keys, a text date.fromisoformat rejects or a
\* date in the future
HireDates == {"present", "missing", "invalid"}

\* get_tenure(): get_workday_id() gives the profile or its error payload;
\* without a usable summary.hire_date (the error payload has no summary)
\* ValueError is raised, and nothing around get_tenure_tool catches it
GetTenure(c, hire) ==
    [memo |-> c.memo, snap |-> c.snap,
     res |-> IF CredOk(c) /\ hire = "present" THEN "tenure" ELSE "raised"]

NoOp == [op |-> "none", at |-> 0, snapBefore |-> Absent,
         how |-> "none", rec |-> NoRecord, hr |-> "none", res |-> "none"]

\* the record of a completed tool call
Done(name, c, hr, r) ==
    [op |-> name, at |-> now, snapBefore |-> snapshot,
     how |-> c.how, rec |-> c.rec, hr |-> hr, res |-> r.res]

\* most requests for the letter in flight at once
MaxThreads == 2
-----------------------------------------------------------------------------
(* doc_generator.py: the in-memory document cache *)

\* A filename is a sequence of characters; the extensions are kept as one
\* element each, and "STAMP" stands for the digits of a formatted timestamp.

\* invalid_chars of _sanitize_filename
InvalidChars == {"<", ">", ":", "\"", "/", "\\", "|", "?", "*"}

\* str.strip() of the leading blanks
RECURSIVE LStrip(_)
LStrip(s) == IF s # <<>> /\ Head(s) = " " THEN LStrip(Tail(s)) ELSE s

\* str.strip() of the trailing blanks
RECURSIVE RStrip(_)
RStrip(s) == IF s # <<>> /\ s[Len(s)] = " "
             THEN RStrip(SubSeq(s, 1, Len(s) - 1)) ELSE s

\* safe.strip()
Strip(s) == RStrip(LStrip(s))

\* safe.replace(" ", "_")
Underscored(s) == [i \in 1..Len(s) |-> IF s[i] = " " THEN "_" ELSE s[i]]

\* f"document_{int(datetime.now().timestamp())}"
DefaultName == <<"document_", "STAMP">>

\* mutant: the invalid characters are kept
sanitize_keeps_invalid(name, preserve_spaces) ==
    LET safe == Strip(name)
        out == IF preserve_spaces THEN safe ELSE Underscored(safe)
    IN  IF out = <<>> THEN DefaultName ELSE out

\* _sanitize_filename(name, preserve_spaces)
sanitize_filename(name, preserve_spaces) ==
    LET safe == Strip(SelectSeq(name, LAMBDA c : c \notin InvalidChars))
        out == IF preserve_spaces THEN safe ELSE Underscored(safe)
    IN  IF out = <<>> THEN DefaultName ELSE out

\* " - " in filename
HasDash(name) ==
    \E i \in 1..(Len(name) - 2) :
        name[i] = " " /\ name[i + 1] = "-" /\ name[i + 2] = " "

\* f"render_{Path(template_name).stem}_{datetime.now().strftime(...)}.docx"
AutoName == <<"render_", "STAMP", ".docx">>

\* base_name.lower().endswith(".docx")
EndsWithDocx(s) == s # <<>> /\ s[Len(s)] \in {".docx", ".DOCX"}

\* base_name of generate_docx_from_template; a filename of None and an empty
\* one are both falsy and take the same path, so <<>> stands for either
BaseName(filename) ==
    LET preserve_spaces == filename # <<>> /\ HasDash(filename)
        raw == IF filename # <<>> THEN filename ELSE AutoName
        base == sanitize_filename(raw, preserve_spaces)
    IN  IF EndsWithDocx(base) THEN base ELSE Append(base, ".docx")

\* Path(base_name).with_suffix(".pdf").name, of a name ending in the extension
PdfName(base) == Append(SubSeq(base, 1, Len(base) - 1), ".pdf")

\* f"{datetime.now().timestamp()}_{base_name}"
DocKey(t, base) == <<t, base>>

\* Optional values returned by the lookups
NoneValue == [some |-> FALSE, val |-> <<>>]
Some(v) == [some |-> TRUE, val |-> v]

\* _document_cache[doc_key] = entry
CachePut(c, k, e) == [x \in DOMAIN c \cup {k} |-> IF x = k THEN e ELSE c[x]]

\* _document_cache.pop(doc_key, None)
CachePop(c, k) == [x \in DOMAIN c \ {k} |-> c[x]]

\* mutant: an entry holding an empty document counts as missing
EmptyIsMissing(c, k) == k \in DOMAIN c /\ c[k].bytes # ""

\* cache_entry = _document_cache.get(doc_key); if cache_entry: the entry is a
\* dict of two keys, truthy whatever its document holds
EntryFound(c, k) == k \in DOMAIN c

\* get_document_from_cache(doc_key)
get_document_from_cache(k) ==
    IF EntryFound(document_cache, k) THEN Some(document_cache[k].bytes)
    ELSE NoneValue

\* get_document_filename_from_cache(doc_key)
get_document_filename_from_cache(k) ==
    IF EntryFound(document_cache, k) THEN Some(document_cache[k].filename)
    ELSE NoneValue

\* get_document_mimetype_from_cache(doc_key)
get_document_mimetype_from_cache(k) ==
    LET f == get_document_filename_from_cache(k)
        filename == IF f.some THEN f.val ELSE <<>>
    IN  IF filename # <<>> /\ filename[Len(filename)] \in {".pdf", ".PDF"}
        THEN "application/pdf" ELSE "application/docx"

\* filenames asked of the generator: none; a plain one; blanks around and
\* inside; the verification letter's, of a legal name holding a quote; one of
\* invalid characters only; an upper-case extension behind a path separator
FileNames ==
    { <<>>,
      <<"a", ".docx">>,
      <<" ", "a", " ", "b", " ">>,
      <<"E", "V", "L", " ", "-", " ", "O", "\"", "B", ".docx">>,
      <<"<", ">", ":", "\"", "/", "\\", "|", "?", "*">>,
      <<"a", "/", "b", ".DOCX">> }

\* what tpl.save writes: a document, or nothing at all
DocContents == {"", "docx"}

\* a key the generator never issued
NeverIssued == DocKey(0, <<"missing">>)

NoDocOp == [op |-> "none", res |-> "none", key |-> NeverIssued,
            requested |-> <<>>, bytes |-> NoneValue, filename |-> NoneValue]

\* the clock of datetime.now() advances
DocTick ==
    /\ docClock < MaxDocs
    /\ docClock' = docClock + 1
    /\ UNCHANGED <<document_cache, docLast>>

\* generate_docx_from_template(template_name, context, filename): raises
\* before storing anything (docxtpl or the template missing, a placeholder
\* undefined), or stores the rendered document under a new key
GenerateDocx ==
    \E filename \in FileNames, content \in DocContents, rendered \in BOOLEAN :
       LET base == BaseName(filename)
           key == DocKey(docClock, base)
       IN  IF rendered
           THEN /\ Cardinality(DOMAIN document_cache \cup {key}) <= MaxDocs
                /\ document_cache' =
                       CachePut(document_cache, key,
                                [bytes |-> content, filename |-> base])
                /\ docLast' = [op |-> "generate", res |-> "ok", key |-> key,
                               requested |-> filename,
                               bytes |-> Some(content),
                               filename |-> Some(base)]
                /\ UNCHANGED docClock
           ELSE /\ docLast' = [NoDocOp EXCEPT !.op = "generate",
                                              !.res = "raised",
                                              !.requested = filename]
                /\ UNCHANGED <<document_cache, docClock>>

\* generate_docx_from_template_as_pdf: the DOCX is stored first; when the
\* conversion yields a PDF it is stored under a key of its own, taken from a
\* later reading of the clock, and that key is returned; without a PDF the
\* DOCX result is returned, or RuntimeError raised under EVL_REQUIRE_PDF
GenerateAsPdf ==
    \E filename \in FileNames, content \in DocContents,
       converted \in BOOLEAN, require_pdf \in BOOLEAN,
       later \in {docClock, docClock + 1} :
       LET base == BaseName(filename)
           key == DocKey(docClock, base)
           withDocx == CachePut(document_cache, key,
                                [bytes |-> content, filename |-> base])
           pdf_name == PdfName(base)
           pdf_key == DocKey(later, pdf_name)
       IN  /\ later <= MaxDocs
           /\ docClock' = later
           /\ IF converted
              THEN /\ Cardinality(DOMAIN withDocx \cup {pdf_key}) <= MaxDocs
                   /\ document_cache' =
                          CachePut(withDocx, pdf_key,
                                   [bytes |-> "pdf", filename |-> pdf_name])
                   /\ docLast' = [op |-> "generate", res |-> "ok",
                                  key |-> pdf_key, requested |-> filename,
                                  bytes |-> Some("pdf"),
                                  filename |-> Some(pdf_name)]
              ELSE /\ Cardinality(DOMAIN withDocx) <= MaxDocs
                   /\ document_cache' = withDocx
                   /\ docLast' =
                          IF require_pdf
                          THEN [NoDocOp EXCEPT !.op = "generate",
                                               !.res = "raised",
                                               !.requested = filename]
                          ELSE [op |-> "generate", res |-> "ok", key |-> key,
                                requested |-> filename,
                                bytes |-> Some(content),
                                filename |-> Some(base)]

\* the keys a client asks for: those in the cache, the one of the latest
\* operation (still there or cleared since), and one never issued
AskedKeys == DOMAIN document_cache \cup {docLast.key, NeverIssued}

\* get_document_from_cache and get_document_filename_from_cache of one key
LookupDoc ==
    \E k \in AskedKeys :
       /\ docLast' = [op |-> "lookup", res |-> "returned", key |-> k,
                      requested |-> <<>>,
                      bytes |-> get_document_from_cache(k),
                      filename |-> get_document_filename_from_cache(k)]
       /\ UNCHANGED <<document_cache, docClock>>

\* download_doc_from_memory(doc_key) of server.py: 404 when the lookup gives
\* None, else the document under its filename, "document.docx" for want of one
DownloadDoc ==
    \E k \in AskedKeys :
       LET doc_bytes == get_document_from_cache(k)
           f == get_document_filename_from_cache(k)
       IN  /\ docLast' =
                  IF doc_bytes = NoneValue
                  THEN [NoDocOp EXCEPT !.op = "download", !.res = "404",
                                       !.key = k]
                  ELSE [op |-> "download", res |-> "200", key |-> k,
                        requested |-> <<>>, bytes |-> doc_bytes,
                        filename |-> IF f.some /\ f.val # <<>> THEN f
                                     ELSE Some(<<"document", ".docx">>)]
           /\ UNCHANGED <<document_cache, docClock>>

\* clear_document_cache(doc_key)
ClearDocument ==
    \E k \in AskedKeys :
       /\ document_cache' = CachePop(document_cache, k)
       /\ docLast' = [NoDocOp EXCEPT !.op = "clear", !.res = "cleared",
                                     !.key = k]
       /\ UNCHANGED docClock

\* the request threads of the serving process
Threads == 1..MaxThreads

\* module load: nothing memoized, empty session; the files are what an
\* earlier process left: a snapshot or none, a legacy pickle or none, the
\* letter flag or none (_evl_sent_to_hr = EVL_SENT_FLAG_PATH.exists())
InitAgentVars ==
    /\ now = 0
    /\ memo = NoRecord
    /\ snapshot \in {Absent} \cup {Rec(0, 0, ex) : ex \in ExpiresChoices}
    /\ legacyFile \in BOOLEAN
    /\ auths = 0
    /\ chat_history = <<>>
    /\ user_context = FALSE
    /\ submission_complete = FALSE
    /\ evlFlagFile \in BOOLEAN
    /\ evl_sent_to_hr = evlFlagFile
    /\ renders = 0
    /\ letters = 0
    /\ epc = [t \in Threads |-> "idle"]
    /\ evia = [t \in Threads |-> "none"]
    /\ cpc = "idle"
    /\ pending = <<>>
    /\ turnMsg = "none"
    /\ summaryBefore = FALSE
    /\ submits = 0
    /\ iters = 0
    /\ turns = 0
    /\ last = NoOp
    /\ document_cache = <<>>
    /\ docClock = 0
    /\ docLast = NoDocOp

\* a second passes
Tick ==
    /\ now < MaxTime
    /\ now' = now + 1
    /\ UNCHANGED <<memo, snapshot, legacyFile, auths, sessvars, turnvars, last>>

\* the tool r ran on credential request c: its effect on the cache
ToolRan(c, r) ==
    /\ RanFlow(c) => auths < MaxAuth
    /\ memo' = r.memo
    /\ snapshot' = r.snap
    /\ auths' = IF RanFlow(c) THEN auths + 1 ELSE auths
    /\ UNCHANGED <<now, legacyFile>>

\* get_workday_id() called outside a chat turn (GET /diagnostics)
CallGetWorkdayId ==
    /\ \E f \in FlowRunsAt(memo, snapshot, now) :
         LET c == CredRequest(memo, snapshot, now, f[1], f[2], auths + 1)
             r == GetWorkdayId(c)
         IN ToolRan(c, r) /\ last' = Done("get_workday_id", c, "none", r)
    /\ UNCHANGED <<sessvars, turnvars>>

\* get_tenure_tool() called on its own
CallGetTenure ==
    /\ \E f \in FlowRunsAt(memo, snapshot, now), hire \in HireDates :
         LET c == CredRequest(memo, snapshot, now, f[1], f[2], auths + 1)
             r == GetTenure(c, hire)
         IN ToolRan(c, r) /\ last' = Done("get_tenure", c, "none", r)
    /\ UNCHANGED <<sessvars, turnvars>>

\* check_valid_dates() called on its own
CallCheckValidDates ==
    /\ \E f \in FlowRunsAt(memo, snapshot, now), a \in ToolInputs :
         LET c == CredRequest(memo, snapshot, now, f[1], f[2], auths + 1)
             r == CheckValidDates(c, a[1], a[2])
         IN ToolRan(c, r) /\ last' = Done("check_valid_dates", c, HrSeen(c, a), r)
    /\ UNCHANGED <<sessvars, turnvars>>

\* submit_time_off() called on its own
CallSubmitTimeOff ==
    /\ \E f \in FlowRunsAt(memo, snapshot, now), a \in ToolInputs :
         LET c == CredRequest(memo, snapshot, now, f[1], f[2], auths + 1)
             r == SubmitTimeOff(c, a[1], a[2])
         IN ToolRan(c, r) /\ last' = Done("submit_time_off", c, HrSeen(c, a), r)
    /\ UNCHANGED <<sessvars, turnvars>>

\* reset_auth_cache(): the memo and the session globals are cleared first;
\* then .token_cache.json is unlinked, or else the legacy pickle; a failing
\* unlink there ends the reset with False.  A failing unlink of the letter
\* flag is swallowed.
ResetAuthCache ==
    /\ \E unlinkOk \in BOOLEAN, flagUnlinkOk \in BOOLEAN :
        /\ memo' = NoRecord
        /\ user_context' = FALSE
        /\ chat_history' = <<>>
        /\ submission_complete' = FALSE
        /\ evl_sent_to_hr' = FALSE
        /\ snapshot' = IF snapshot.kind # "absent" /\ unlinkOk THEN Absent ELSE snapshot
        /\ legacyFile' = IF snapshot.kind = "absent" /\ unlinkOk THEN FALSE ELSE legacyFile
        /\ LET reached == unlinkOk \/ (snapshot.kind = "absent" /\ ~legacyFile)
           IN /\ evlFlagFile' = IF reached /\ flagUnlinkOk THEN FALSE ELSE evlFlagFile
              /\ last' = [NoOp EXCEPT !.op = "reset", !.at = now,
                                      !.snapBefore = snapshot,
                                      !.res = IF reached THEN "True" ELSE "False"]
    /\ letters' = 0
    /\ UNCHANGED <<now, auths, renders, turnvars>>

-----------------------------------------------------------------------------
(* agent.py: chat_with_workday *)

\* most calls of chat_with_workday explored
MaxTurns == 2
\* most generate_content calls explored in one turn (the code sets no cap)
MaxIter == 2
\* most tool calls explored in one model response
MaxCalls == 2
\* most documents rendered
MaxRenders == 2
\* longest history a further turn is started from
MaxCarry == 2
\* longest history a batch of tool calls and its results are appended up to
MaxHistory == 5

\* the messages a user sends
UserMessages == {"yes", "thanks", "I need Friday off", "verification letter"}

\* SYSTEM_INSTRUCTION: the words that confirm a submission
ConfirmationTokens == {"yes", "confirm", "submit", "go ahead", "proceed"}

\* _maybe_handle_evl: any(t in text for t in triggers)
MentionsEvlTrigger(msg) == msg \in {"verification letter"}

\* the functions handed to generate_content as tools
ToolNames == {"get_workday_id_tool", "check_valid_dates_tool", "submit_time_off_tool",
              "get_tenure_tool", "generate_employment_verification_letter_tool"}

\* the non-empty sequences of at most n elements of S
SeqUpTo(S, n) == UNION {[1..k -> S] : k \in 1..n}

\* entries of _chat_history
UserTurn(msg, ctx) == [kind |-> "user", name |-> msg, flag |-> ctx, calls |-> <<>>, res |-> "none"]
ModelText(summary) == [kind |-> "text", name |-> "model", flag |-> summary, calls |-> <<>>, res |-> "none"]
ModelCalls(batch) == [kind |-> "calls", name |-> "model", flag |-> FALSE, calls |-> batch, res |-> "none"]
ToolResult(name, res) == [kind |-> "result", name |-> name, flag |-> FALSE, calls |-> <<>>, res |-> res]

\* the latest entry of the history is a model turn that showed a summary and
\* asked for confirmation
SummaryShown(h) == Len(h) > 0 /\ h[Len(h)].kind = "text" /\ h[Len(h)].flag

\* a credential request that was not made
NoCred == [memo |-> memo, snap |-> snapshot, how |-> "none", rec |-> NoRecord]

ChatDone(res) == [NoOp EXCEPT !.op = "chat", !.at = now, !.res = res]

\* mutant: the sentinel file is not consulted
LetterSentInProcess == evl_sent_to_hr

\* if _evl_sent_to_hr or EVL_SENT_FLAG_PATH.exists()
LetterSent == evl_sent_to_hr \/ evlFlagFile

\* _maybe_handle_evl on a message that asks for the letter: the already-sent
\* reply, or generate_employment_verification_letter_tool (profile fetch,
\* render, flag and sentinel file) and its reply.  The turn ends here.
EvlFastPath(msg) ==
    IF LetterSent
      THEN /\ last' = ChatDone("evl_already")
           /\ UNCHANGED <<credvars, sessvars>>
      ELSE \E f \in FlowRunsAt(memo, snapshot, now), rendered \in BOOLEAN, flagWritten \in BOOLEAN :
           LET c == CredRequest(memo, snapshot, now, f[1], f[2], auths + 1)
           IN /\ RanFlow(c) => auths < MaxAuth
              /\ rendered => renders < MaxRenders
              /\ memo' = c.memo
              /\ snapshot' = c.snap
              /\ auths' = IF RanFlow(c) THEN auths + 1 ELSE auths
              /\ renders' = IF rendered THEN renders + 1 ELSE renders
              /\ letters' = IF rendered THEN letters + 1 ELSE letters
              /\ evl_sent_to_hr' = rendered
              /\ evlFlagFile' = (rendered /\ flagWritten)
              /\ last' = ChatDone(IF rendered THEN "evl_generated" ELSE "evl_error")
              /\ UNCHANGED <<now, legacyFile, chat_history, user_context,
                             submission_complete>>

\* the start of a turn that is not a letter request: the history is dropped
\* after a submission, get_user_context() fetches the profile unless it is
\* cached, the user message is appended
TurnStart(msg) ==
    \E f \in FlowRunsAt(memo, snapshot, now) :
      LET c == IF user_context THEN NoCred
               ELSE CredRequest(memo, snapshot, now, f[1], f[2], auths + 1)
          ctx == user_context \/ CredOk(c)
          h == IF submission_complete THEN <<>> ELSE chat_history
      IN /\ RanFlow(c) => auths < MaxAuth
         /\ memo' = c.memo
         /\ snapshot' = c.snap
         /\ auths' = IF RanFlow(c) THEN auths + 1 ELSE auths
         /\ user_context' = ctx
         /\ submission_complete' = FALSE
         /\ chat_history' = Append(h, UserTurn(msg, ctx))
         /\ last' = ChatDone("pending")
         /\ UNCHANGED <<now, legacyFile, evl_sent_to_hr, evlFlagFile, renders, letters>>

\* chat_with_workday(user_message) up to the first generate_content call
ChatStart ==
    /\ cpc = "idle"
    /\ turns < MaxTurns
    /\ Len(IF submission_complete THEN <<>> ELSE chat_history) <= MaxCarry
    /\ \E msg \in UserMessages :
        /\ turnMsg' = msg
        /\ summaryBefore' = SummaryShown(chat_history)
        /\ IF MentionsEvlTrigger(msg)
             THEN EvlFastPath(msg) /\ cpc' = "idle"
             ELSE TurnStart(msg) /\ cpc' = "model"
    /\ turns' = turns + 1
    /\ submits' = 0
    /\ iters' = 0
    /\ pending' = <<>>

\* the tool-call parts of a response: any one tool of the schema, or several
\* calls among three of its tools (one without arguments, the submission, one
\* the dispatch does not know)
ToolBatches ==
    SeqUpTo(ToolNames, 1)
    \cup SeqUpTo({"get_workday_id_tool", "submit_time_off_tool", "get_tenure_tool"}, MaxCalls)

\* what generate_content can come back with: text, text next to tool-call
\* parts, tool calls only, no candidate or a candidate with an empty list of
\* parts (empty), a candidate whose part holds neither text nor a function
\* call (blank), an exception (quota, authorization, anything else)
ModelResponses ==
    {[kind |-> "text", summary |-> b, calls |-> <<>>] : b \in BOOLEAN}
    \cup {[kind |-> "text_and_calls", summary |-> FALSE, calls |-> cs] :
            cs \in SeqUpTo(ToolNames, 1)}
    \cup {[kind |-> "calls", summary |-> FALSE, calls |-> cs] : cs \in ToolBatches}
    \cup {[kind |-> k, summary |-> FALSE, calls |-> <<>>] :
            k \in {"empty", "blank", "quota", "unauthorized", "failure"}}

\* `response.text`, or the text parts of the first candidate, is not empty
HasText(r) == r.kind \in {"text", "text_and_calls"}

\* mutant: the function calls of a response are dispatched next to its text
DispatchableWithText(r) == r.calls

\* the function calls the loop goes on to dispatch: both tests for text come
\* before `if tool_calls`, so those of a response without text
Dispatchable(r) == IF HasText(r) THEN <<>> ELSE r.calls

\* mutant: only a failure of the turn's first call is translated
ChatExceptFirstCall(kind, calls) ==
    IF kind = "quota" /\ calls = 0 THEN "capacity" ELSE "raised"

\* the except clause around the whole loop, for an exception of the
\* generate_content call number calls + 1 of the turn: an exception whose text
\* holds '429', 'resource exhausted' or 'quota' (kind quota) becomes the
\* capacity reply, any other is raised again
ChatExcept(kind, calls) ==
    IF kind = "quota" THEN "capacity" ELSE "raised"

\* `elif hasattr(part, 'function_call')` holds for every part of a
\* google.genai response, so a part without text puts its function_call,
\* None, into tool_calls; the candidate's content is appended to the history
\* and `tool_call.name` raises AttributeError, which the except clause raises
\* again
BlankPart(r) == ChatExcept("failure", 0)

\* one generate_content call and the handling of its response
ModelResponds ==
    /\ cpc = "model"
    /\ \E r \in ModelResponses :
        /\ (Dispatchable(r) # <<>>) => /\ iters + 1 < MaxIter
                                 /\ Len(chat_history) + 1 + Len(r.calls) <= MaxHistory
        /\ chat_history' =
             CASE HasText(r) -> Append(chat_history, ModelText(r.summary))
               [] r.kind = "calls" -> Append(chat_history, ModelCalls(r.calls))
               [] r.kind = "blank" /\ BlankPart(r) = "raised" ->
                     Append(chat_history, ModelCalls(<<>>))
               [] OTHER -> chat_history
        /\ pending' = Dispatchable(r)
        /\ cpc' = IF Dispatchable(r) # <<>> THEN "dispatch" ELSE "idle"
        /\ memo' = IF r.kind = "unauthorized" THEN NoRecord ELSE memo
        /\ last' = CASE HasText(r) -> [ChatDone("text") EXCEPT !.how = r.kind]
                     [] r.kind = "calls" -> last
                     [] r.kind = "empty" -> [ChatDone("fallback") EXCEPT !.how = r.kind]
                     [] r.kind = "blank" -> [ChatDone(BlankPart(r)) EXCEPT !.how = r.kind]
                     [] OTHER -> [ChatDone(ChatExcept(r.kind, iters))
                                     EXCEPT !.how = r.kind]
    /\ iters' = iters + 1
    /\ UNCHANGED <<now, snapshot, legacyFile, auths, user_context, submission_complete,
                   evl_sent_to_hr, evlFlagFile, renders, letters, turnMsg,
                   summaryBefore, submits, turns>>

\* the latest n entries of a history
Latest(h, n) == IF Len(h) <= n THEN h ELSE SubSeq(h, Len(h) - n + 1, Len(h))

\* `while True`: a generate_content call past the depth explored by
\* ModelResponds that is answered with one more tool call.  The loop has no
\* counter and no limit; of the history only the latest entries are tracked.
FurtherCalls ==
    /\ cpc = "model"
    /\ iters + 1 >= MaxIter
    /\ \E cs \in SeqUpTo(ToolNames, 1) :
         /\ chat_history' = Latest(Append(chat_history, ModelCalls(cs)), MaxHistory - 1)
         /\ pending' = cs
    /\ cpc' = "dispatch"
    /\ UNCHANGED <<credvars, user_context, submission_complete, evl_sent_to_hr,
                   evlFlagFile, renders, letters, turnMsg, summaryBefore, submits,
                   iters, turns, last>>

\* POST /chat of server.py on what chat_with_workday did: its reply in a 200
\* answer, or for an exception an error answer (400, 504 or 500) whose detail
\* is the text of the exception
ChatRoute(res) ==
    IF res = "raised" THEN [status |-> "error", body |-> "exception_text"]
    ELSE [status |-> "200", body |-> res]

\* the if/elif chain of the dispatch loop: the tool that runs for a name
Dispatched(name) ==
    CASE name = "get_workday_id_tool" -> "get_workday_id"
      [] name = "check_valid_dates_tool" -> "check_valid_dates"
      [] name = "submit_time_off_tool" -> "submit_time_off"
      [] OTHER -> "unknown"

\* the history a tool's result is appended to: workday_tools_agent/agent.py
\* leaves it alone until the next turn
KeptHistory(h, tool) == h

\* ask_hr_ai_agent_adk/agent.py: `_chat_history = []` follows the call of
\* submit_time_off_tool at once, before its result is appended
KeptHistoryAdk(h, tool) == IF tool = "submit_time_off" THEN <<>> ELSE h

\* one pass of `for tool_call in tool_calls`: the tool runs, its result is
\* appended to the history; after the last call the loop calls the model again.
\* The record of the turn in progress notes what the HR API answered the tool.
Dispatch(adk) ==
    /\ cpc = "dispatch"
    /\ LET name == Head(pending)
           tool == Dispatched(name)
       IN /\ \E f \in FlowRunsAt(memo, snapshot, now), a \in ToolInputsOf(tool) :
              LET c == IF tool = "unknown" THEN NoCred
                       ELSE CredRequest(memo, snapshot, now, f[1], f[2], auths + 1)
                  r == CASE tool = "get_workday_id" -> GetWorkdayId(c)
                         [] tool = "check_valid_dates" -> CheckValidDates(c, a[1], a[2])
                         [] tool = "submit_time_off" -> SubmitTimeOff(c, a[1], a[2])
                         [] OTHER -> [memo |-> memo, snap |-> snapshot, res |-> "unknown_tool"]
              IN /\ ToolRan(c, r)
                 /\ chat_history' =
                        Append(IF adk THEN KeptHistoryAdk(chat_history, tool)
                               ELSE KeptHistory(chat_history, tool),
                               ToolResult(name, r.res))
                 /\ last' = [last EXCEPT !.hr = HrSeen(c, a)]
          /\ submits' = IF tool = "submit_time_off" THEN submits + 1 ELSE submits
          /\ submission_complete' = (submission_complete \/ tool = "submit_time_off")
    /\ pending' = Tail(pending)
    /\ cpc' = IF Len(pending) = 1 THEN "model" ELSE "dispatch"
    /\ UNCHANGED <<user_context, evl_sent_to_hr, evlFlagFile, renders, letters,
                   turnMsg, summaryBefore, iters, turns>>

\* the dispatch loop of workday_tools_agent/agent.py
DispatchTool == Dispatch(FALSE)

\* the dispatch loop of ask_hr_ai_agent_adk/agent.py
DispatchToolAdk == Dispatch(TRUE)

\* chat_with_workday of ask_hr_ai_agent_adk/agent.py up to the first
\* generate_content call: there is no letter fast path and no test of
\* _submission_complete; get_user_context() fetches the profile unless it is
\* cached, the user message is appended to the history as it stands
ChatStartAdk ==
    /\ cpc = "idle"
    /\ turns < MaxTurns
    /\ Len(chat_history) <= MaxCarry
    /\ \E msg \in UserMessages, f \in FlowRunsAt(memo, snapshot, now) :
         LET c == IF user_context THEN NoCred
                  ELSE CredRequest(memo, snapshot, now, f[1], f[2], auths + 1)
             ctx == user_context \/ CredOk(c)
         IN /\ RanFlow(c) => auths < MaxAuth
            /\ memo' = c.memo
            /\ snapshot' = c.snap
            /\ auths' = IF RanFlow(c) THEN auths + 1 ELSE auths
            /\ user_context' = ctx
            /\ chat_history' = Append(chat_history, UserTurn(msg, ctx))
            /\ turnMsg' = msg
            /\ summaryBefore' = SummaryShown(chat_history)
            /\ last' = ChatDone("pending")
    /\ cpc' = "model"
    /\ turns' = turns + 1
    /\ submits' = 0
    /\ iters' = 0
    /\ pending' = <<>>
    /\ UNCHANGED <<now, legacyFile, submission_complete, evl_sent_to_hr, evlFlagFile,
                   renders, letters>>

-----------------------------------------------------------------------------
(* agent.py: requests for the verification letter, step by step *)

\* mutant: the flag is raised before the renderer has run
SentAfterAttempt(sent, rendered) == TRUE

\* _evl_sent_to_hr after generate_docx_from_template_as_pdf: the assignment
\* follows the renderer's return, an exception skips it
SentAfterRender(sent, rendered) == sent \/ rendered

\* the record of a completed letter request
LetterDone(via, res) ==
    IF via = "chat" THEN ChatDone(res)
    ELSE [NoOp EXCEPT !.op = "letter_tool", !.at = now, !.res = res]

\* a request for the letter comes in: chat_with_workday with a trigger in the
\* message (its _maybe_handle_evl tests the flag and answers or goes on to
\* the tool), or generate_employment_verification_letter_tool called directly
LetterRequest(t) ==
    /\ epc[t] = "idle"
    /\ cpc = "idle"
    /\ \E via \in {"chat", "tool"} :
        /\ evia' = [evia EXCEPT ![t] = via]
        /\ IF via = "chat" /\ LetterSent
             THEN /\ epc' = epc
                  /\ last' = LetterDone("chat", "evl_already")
             ELSE /\ epc' = [epc EXCEPT ![t] = "tool"]
                  /\ last' = last
    /\ UNCHANGED <<credvars, sessvars, turnvars>>

\* generate_employment_verification_letter_tool: the test of the flag
LetterToolCheck(t) ==
    /\ epc[t] = "tool"
    /\ IF LetterSent
         THEN /\ epc' = [epc EXCEPT ![t] = "idle"]
              /\ last' = LetterDone(evia[t], "evl_already")
         ELSE /\ epc' = [epc EXCEPT ![t] = "render"]
              /\ last' = last
    /\ UNCHANGED <<credvars, sessvars, turnvars, evia>>

\* generate_employment_verification_letter_tool past the test: the profile
\* is fetched for the template context, the renderer runs, and after it
\* returned the flag is raised and the sentinel file written (a failing
\* write is swallowed)
LetterRender(t) ==
    /\ epc[t] = "render"
    /\ \E f \in FlowRunsAt(memo, snapshot, now), rendered \in BOOLEAN, flagWritten \in BOOLEAN :
         LET c == CredRequest(memo, snapshot, now, f[1], f[2], auths + 1)
         IN /\ RanFlow(c) => auths < MaxAuth
            /\ rendered => renders < MaxRenders
            /\ memo' = c.memo
            /\ snapshot' = c.snap
            /\ auths' = IF RanFlow(c) THEN auths + 1 ELSE auths
            /\ renders' = IF rendered THEN renders + 1 ELSE renders
            /\ letters' = IF rendered THEN letters + 1 ELSE letters
            /\ evl_sent_to_hr' = SentAfterRender(evl_sent_to_hr, rendered)
            /\ evlFlagFile' = (evlFlagFile \/ (rendered /\ flagWritten))
            /\ IF rendered /\ evia[t] = "chat"
                 THEN /\ epc' = [epc EXCEPT ![t] = "chatret"]
                      /\ last' = last
                 ELSE /\ epc' = [epc EXCEPT ![t] = "idle"]
                      /\ last' = LetterDone(evia[t], IF rendered THEN "evl_generated"
                                                     ELSE "evl_error")
    /\ UNCHANGED <<now, legacyFile, chat_history, user_context, submission_complete,
                   turnvars, evia>>

\* _maybe_handle_evl after the tool reported success: the flag is raised and
\* the sentinel file written once more, the download link is returned
LetterChatReturn(t) ==
    /\ epc[t] = "chatret"
    /\ \E flagWritten \in BOOLEAN :
         evlFlagFile' = (evlFlagFile \/ flagWritten)
    /\ evl_sent_to_hr' = TRUE
    /\ epc' = [epc EXCEPT ![t] = "idle"]
    /\ last' = LetterDone("chat", "evl_generated")
    /\ UNCHANGED <<credvars, chat_history, user_context, submission_complete,
                   renders, letters, turnvars, evia>>

\* the serving process is stopped and started again: the module is loaded
\* anew (_evl_sent_to_hr = EVL_SENT_FLAG_PATH.exists()), and the server calls
\* reset_auth_cache() at import unless ASKHR_RESET_AUTH_ON_STARTUP says no
Restart ==
    /\ cpc = "idle"
    /\ \A t \in Threads : epc[t] = "idle"
    /\ memo' = NoRecord
    /\ chat_history' = <<>>
    /\ user_context' = FALSE
    /\ submission_complete' = FALSE
    /\ \E resetOnStartup \in BOOLEAN, unlinkOk \in BOOLEAN, flagUnlinkOk \in BOOLEAN :
         IF resetOnStartup
           THEN LET reached == unlinkOk \/ (snapshot.kind = "absent" /\ ~legacyFile)
                IN /\ snapshot' = IF snapshot.kind # "absent" /\ unlinkOk
                                    THEN Absent ELSE snapshot
                   /\ legacyFile' = IF snapshot.kind = "absent" /\ unlinkOk
                                      THEN FALSE ELSE legacyFile
                   /\ evlFlagFile' = IF reached /\ flagUnlinkOk THEN FALSE ELSE evlFlagFile
                   /\ evl_sent_to_hr' = FALSE
                   /\ last' = [NoOp EXCEPT !.op = "restart", !.at = now,
                                           !.snapBefore = snapshot,
                                           !.res = "startup_reset"]
           ELSE /\ evl_sent_to_hr' = evlFlagFile
                /\ last' = [NoOp EXCEPT !.op = "restart", !.at = now,
                                        !.snapBefore = snapshot, !.res = "loaded"]
                /\ UNCHANGED <<snapshot, legacyFile, evlFlagFile>>
    /\ document_cache' = <<>>
    /\ UNCHANGED <<docClock, docLast>>
    /\ UNCHANGED <<now, auths, renders, letters, turnvars, evlvars>>

-----------------------------------------------------------------------------
(* rag_agent: routers/chat.py and RouterAgent of services/orchestrator.py *)

\* the ids uuid4 hands out
SessionIds == {"s1", "s2"}

\* most POST /message requests of a run
MaxRequests == 2

\* what a user posts to /message
RouterMessages == {"hello", "I need Friday off", "yes"}

\* RouterAgent._is_greeting on the stripped, lower-cased query
IsGreeting(msg) == msg \in {"hello"}

InitRouterVars ==
    /\ sessions = <<>>
    /\ requests = <<>>
    /\ owners = <<>>

\* POST /session: a new id with an empty history
CreateSession ==
    /\ \E s \in SessionIds \ DOMAIN sessions :
         sessions' = (s :> <<>>) @@ sessions
    /\ UNCHANGED <<requests, owners>>

\* the two entries send_message appends once route_and_process has returned;
\* req, the number of the request, is not part of the entries in the code
SessionTurn(i, msg, reply) ==
    << [role |-> "user", content |-> msg, req |-> i],
       [role |-> "assistant", content |-> reply, req |-> i] >>

Request(sid, msg, pc, reply) == [sid |-> sid, msg |-> msg, pc |-> pc, reply |-> reply]

\* POST /message up to the first point where route_and_process waits: 404
\* for an unknown session; a greeting is answered and stored at once; any
\* other query is left with the runner
SendMessage ==
    /\ Len(requests) < MaxRequests
    /\ \E sid \in SessionIds, msg \in RouterMessages :
         LET i == Len(requests) + 1
         IN IF sid \notin DOMAIN sessions
              THEN /\ requests' = Append(requests, Request(sid, msg, "not_found", "none"))
                   /\ UNCHANGED sessions
            ELSE IF IsGreeting(msg)
              THEN /\ requests' = Append(requests, Request(sid, msg, "done", "greeting"))
                   /\ sessions' = [sessions EXCEPT ![sid] = @ \o SessionTurn(i, msg, "greeting")]
            ELSE /\ requests' = Append(requests, Request(sid, msg, "routing", "none"))
                 /\ UNCHANGED sessions
    /\ UNCHANGED owners

\* the runner ends a request without workday_chat (an answer from the model
\* or from rag_retrieve), or raises and send_message answers 500
RouterAnswers(i) ==
    /\ requests[i].pc = "routing"
    /\ \E ok \in BOOLEAN :
         IF ok
           THEN /\ requests' = [requests EXCEPT ![i].pc = "done", ![i].reply = "answer"]
                /\ sessions' = [sessions EXCEPT ![requests[i].sid] =
                                   @ \o SessionTurn(i, requests[i].msg, "answer")]
           ELSE /\ requests' = [requests EXCEPT ![i].pc = "failed"]
                /\ UNCHANGED sessions
    /\ UNCHANGED owners

\* the request the tool service is working on
Serving == CHOOSE i \in 1..Len(requests) : requests[i].pc = "workday"

\* RouterAgent.workday_chat: WorkdayToolsService.chat posts {"message": query}
\* to the tool service, whose chat_with_workday starts a turn with it
WorkdayChat(i) ==
    /\ requests[i].pc = "routing"
    /\ \A j \in 1..Len(requests) : requests[j].pc # "workday"
    /\ ChatStart
    /\ turnMsg' = requests[i].msg
    /\ requests' = [requests EXCEPT ![i].pc = "workday"]
    /\ owners' = Append(IF submission_complete THEN <<>> ELSE owners, i)
    /\ UNCHANGED sessions

\* the entries the turn in progress has appended belong to its request
OwnersExtended ==
    [k \in 1..Len(chat_history') |-> IF k <= Len(owners) THEN owners[k] ELSE Serving]

\* the tool service's turn goes on: a generate_content call
TurnModel ==
    /\ ModelResponds
    /\ owners' = OwnersExtended
    /\ UNCHANGED <<sessions, requests>>

\* the tool service's turn goes on: a tool call
TurnDispatch ==
    /\ DispatchTool
    /\ owners' = OwnersExtended
    /\ UNCHANGED <<sessions, requests>>

\* what WorkdayToolsService.chat hands back for the turn: the reply, or its
\* sentinel when POST /chat answered with an error
ProxyReply(res) == IF ChatRoute(res).status = "200" THEN res ELSE "sentinel"

\* the tool service has answered: workday_chat returns, the runner ends the
\* request and send_message stores the turn in the session
ProxyReturns(i) ==
    /\ requests[i].pc = "workday"
    /\ cpc = "idle"
    /\ requests' = [requests EXCEPT ![i].pc = "done", ![i].reply = ProxyReply(last.res)]
    /\ sessions' = [sessions EXCEPT ![requests[i].sid] =
                       @ \o SessionTurn(i, requests[i].msg, ProxyReply(last.res))]
    /\ UNCHANGED owners

-----------------------------------------------------------------------------
(* agent.py: _get_cached_workday_data called by concurrent threads *)

\* no function was called
NoCall == [fn |-> "none", args |-> <<>>, res |-> <<>>]

\* reset_auth_cache has not run during the turn in progress
NoReset == [kind |-> "no_reset", tok |-> 0, ts |-> 0, exp |-> 0]

InitThreadVars ==
    /\ gpc = [t \in Threads |-> "idle"]
    /\ grec = [t \in Threads |-> NoRecord]
    /\ resetMemo = NoReset
    /\ wpc = "idle"
    /\ wceil = 0
    /\ wclock = 0
    /\ wurl = "none"
    /\ wdriver = "none"
    /\ wres = "none"
    /\ call = NoCall

\* WorkdayToolsService._wait_for_token_cache: self._token_cache_path.exists()
TokenCacheExists == snapshot.kind # "absent"

\* the lru_cache wrapper: a hit returns the memoized record; on a miss the
\* function body runs, outside the wrapper's lock
GetCached(t) ==
    /\ gpc[t] = "idle"
    /\ IF memo.kind = "rec"
         THEN /\ gpc' = [gpc EXCEPT ![t] = "done"]
              /\ grec' = [grec EXCEPT ![t] = memo]
         ELSE /\ gpc' = [gpc EXCEPT ![t] = "read"]
              /\ UNCHANGED grec
    /\ UNCHANGED credvars

\* the first try block: a snapshot that exists, loads and is fresh is returned
\* (and memoized by the wrapper); any exception is swallowed
ReadSnapshot(t) ==
    /\ gpc[t] = "read"
    /\ IF snapshot.kind = "rec" /\ IsFresh(snapshot, now)
         THEN /\ gpc' = [gpc EXCEPT ![t] = "done"]
              /\ grec' = [grec EXCEPT ![t] = snapshot]
              /\ memo' = snapshot
         ELSE /\ gpc' = [gpc EXCEPT ![t] = "flow"]
              /\ UNCHANGED <<grec, memo>>
    /\ UNCHANGED <<now, snapshot, legacyFile, auths>>

\* complete_oauth_flow and the stamping of its result, or its exception
\* (cache_clear, ValueError)
RunFlow(t) ==
    /\ gpc[t] = "flow"
    /\ auths < MaxThreads
    /\ auths' = auths + 1
    /\ \E ok \in BOOLEAN, ex \in ExpiresChoices :
         IF ok
           THEN /\ gpc' = [gpc EXCEPT ![t] = "open"]
                /\ grec' = [grec EXCEPT ![t] = Rec(auths + 1, now, ex)]
                /\ UNCHANGED memo
           ELSE /\ gpc' = [gpc EXCEPT ![t] = "raised"]
                /\ memo' = NoRecord
                /\ UNCHANGED grec
    /\ UNCHANGED <<now, snapshot, legacyFile>>

\* open(TOKEN_CACHE_PATH, 'w'): the file is created or truncated in place
OpenSnapshot(t) ==
    /\ gpc[t] = "open"
    /\ gpc' = [gpc EXCEPT ![t] = "dump"]
    /\ snapshot' = Corrupt
    /\ UNCHANGED <<now, memo, legacyFile, auths, grec>>

\* json.dump and the close of the file, then the return through the wrapper,
\* which memoizes the record; or an exception of the write (cache_clear,
\* ValueError)
DumpSnapshot(t) ==
    /\ gpc[t] = "dump"
    /\ \E ok \in BOOLEAN :
         IF ok
           THEN /\ gpc' = [gpc EXCEPT ![t] = "done"]
                /\ snapshot' = grec[t]
                /\ memo' = grec[t]
                /\ UNCHANGED grec
           ELSE /\ gpc' = [gpc EXCEPT ![t] = "raised"]
                /\ grec' = [grec EXCEPT ![t] = NoRecord]
                /\ memo' = NoRecord
                /\ UNCHANGED snapshot
    /\ UNCHANGED <<now, legacyFile, auths>>

-----------------------------------------------------------------------------
(* workday_api.py: get_auth_code, the wait for the browser authorization *)

\* largest ASKHR_SELENIUM_TIMEOUT explored, in seconds (the default is 300)
MaxWait == 4

\* the clock of the wait counts half seconds: time.sleep(0.5) is one unit
HalfPerSec == 2

\* longest a read of driver.current_url takes, in half seconds
MaxReadTime == 1

\* what a read of driver.current_url gives: an exception, a URL that is not
\* the redirect target, the redirect target with a code, with an error, or
\* with neither
UrlReads == {"read_error", "login_page", "redirect_code", "redirect_error",
             "redirect_other"}

\* mutant: only the code is looked for in the redirect
RedirectCarriesCodeOnly(u) ==
    IF u = "redirect_code" THEN "code" ELSE "nothing"

\* if 'code' in query_params ... elif 'error' in query_params, for a URL
\* that holds the redirect base or 'localhost'
RedirectCarries(u) ==
    CASE u = "redirect_code" -> "code"
      [] u = "redirect_error" -> "error"
      [] OTHER -> "nothing"

\* get_auth_code is called with a complete configuration: the browser is
\* started (Chrome, else Edge), or RuntimeError is raised with no session
AuthStart ==
    /\ wpc = "idle"
    /\ \E c \in 0..MaxWait, started \in BOOLEAN :
         /\ wceil' = c
         /\ IF started
              THEN wpc' = "get" /\ wdriver' = "open" /\ wres' = wres
              ELSE wpc' = "done" /\ wdriver' = "none" /\ wres' = "RuntimeError"
    /\ UNCHANGED <<wclock, wurl>>

\* driver.get(full_auth_url), then start_time = time.time(); an exception of
\* the driver leaves through the except clauses and `finally: driver.quit()`
AuthGet ==
    /\ wpc = "get"
    /\ \E loaded \in BOOLEAN :
         IF loaded
           THEN wpc' = "loop" /\ wclock' = 0 /\ UNCHANGED <<wdriver, wres>>
           ELSE /\ wpc' = "done" /\ wdriver' = "closed"
                /\ wres' = "WebDriverException" /\ UNCHANGED wclock
    /\ UNCHANGED <<wceil, wurl>>

\* one test of `while time.time() - start_time < max_wait_time` and, when it
\* holds, one pass of the loop body
AuthLoop ==
    /\ wpc = "loop"
    /\ IF wclock >= wceil * HalfPerSec
         THEN /\ wpc' = "done" /\ wdriver' = "closed" /\ wres' = "TimeoutError"
              /\ UNCHANGED <<wclock, wurl>>
         ELSE \E u \in UrlReads, d \in 0..MaxReadTime :
                /\ wurl' = u
                /\ CASE RedirectCarries(u) = "code" ->
                          /\ wpc' = "done" /\ wdriver' = "closed" /\ wres' = "code"
                          /\ wclock' = wclock + d
                     [] RedirectCarries(u) = "error" ->
                          /\ wpc' = "done" /\ wdriver' = "closed" /\ wres' = "ValueError"
                          /\ wclock' = wclock + d
                     [] OTHER ->
                          /\ wclock' = wclock + d + 1
                          /\ UNCHANGED <<wpc, wdriver, wres>>
    /\ UNCHANGED wceil

-----------------------------------------------------------------------------
(* Specifications *)

\* the proxy alone: the agent's variables stay as loaded
InitProxy == InitProxyVars /\ InitAgentVars /\ InitRouterVars /\ InitThreadVars
             /\ snapshot = Absent /\ ~legacyFile /\ ~evlFlagFile

\* the agent alone: no proxy call is made
Init == InitAgentVars /\ InitProxyVars /\ InitRouterVars /\ InitThreadVars /\ ~tokenCacheFile

\* the agent serving chat requests from a start without a snapshot
InitChat == Init /\ snapshot = Absent

NextProxy ==
    \/ ProxyCall /\ UNCHANGED <<avars, docvars, rvars, cvars>>
    \/ ProxyLoopHead /\ UNCHANGED <<avars, docvars, rvars, cvars>>
    \/ ProxyPost /\ UNCHANGED <<avars, docvars, rvars, cvars>>
    \/ ProxyDecide /\ UNCHANGED <<avars, docvars, rvars, cvars>>
    \/ ProxyPoll /\ UNCHANGED <<avars, docvars, rvars, cvars>>
    \/ SnapshotChanges /\ UNCHANGED <<avars, docvars, rvars, cvars>>

SpecProxy == InitProxy /\ [][NextProxy]_vars


\* the credential cache under direct calls of the functions that use it
NextCred ==
    \/ Tick /\ UNCHANGED <<pvars, evlvars, docvars, rvars, cvars>>
    \/ CallGetWorkdayId /\ cpc = "idle" /\ UNCHANGED <<pvars, evlvars, docvars, rvars, cvars>>
    \/ CallGetTenure /\ cpc = "idle" /\ UNCHANGED <<pvars, evlvars, docvars, rvars, cvars>>
    \/ CallCheckValidDates /\ cpc = "idle" /\ UNCHANGED <<pvars, evlvars, docvars, rvars, cvars>>
    \/ CallSubmitTimeOff /\ cpc = "idle" /\ UNCHANGED <<pvars, evlvars, docvars, rvars, cvars>>
    \/ ResetAuthCache /\ cpc = "idle" /\ UNCHANGED <<pvars, evlvars, docvars, rvars, cvars>>

SpecCred == Init /\ [][NextCred]_vars

\* the conversation loop, one request at a time
NextChat ==
    \/ ChatStart /\ UNCHANGED <<pvars, evlvars, docvars, rvars, cvars>>
    \/ ModelResponds /\ UNCHANGED <<pvars, evlvars, docvars, rvars, cvars>>
    \/ DispatchTool /\ UNCHANGED <<pvars, evlvars, docvars, rvars, cvars>>
    \/ ResetAuthCache /\ cpc = "idle" /\ UNCHANGED <<pvars, evlvars, docvars, rvars, cvars>>

SpecChat == InitChat /\ [][NextChat]_vars

\* the conversation loop over turns that open a new history: the first
\* turn, a turn after a submission, a turn after a reset
InitTurns == InitChat /\ ~legacyFile /\ ~evlFlagFile

NextTurns ==
    \/ ChatStart /\ Len(chat_history') = 1 /\ UNCHANGED <<pvars, evlvars, docvars, rvars, cvars>>
    \/ ModelResponds /\ UNCHANGED <<pvars, evlvars, docvars, rvars, cvars>>
    \/ DispatchTool /\ UNCHANGED <<pvars, evlvars, docvars, rvars, cvars>>
    \/ ResetAuthCache /\ cpc = "idle" /\ UNCHANGED <<pvars, evlvars, docvars, rvars, cvars>>

SpecTurns == InitTurns /\ [][NextTurns]_vars

\* one turn of the conversation loop, then requests for the letter and resets
InitLetterChat == InitChat /\ ~legacyFile

NextLetterChat ==
    \/ /\ ChatStart
       /\ turns = 0 \/ MentionsEvlTrigger(turnMsg')
       /\ UNCHANGED <<pvars, evlvars, docvars, rvars, cvars>>
    \/ ModelResponds /\ UNCHANGED <<pvars, evlvars, docvars, rvars, cvars>>
    \/ DispatchTool /\ UNCHANGED <<pvars, evlvars, docvars, rvars, cvars>>
    \/ ResetAuthCache /\ cpc = "idle" /\ UNCHANGED <<pvars, evlvars, docvars, rvars, cvars>>

SpecLetterChat == InitLetterChat /\ [][NextLetterChat]_vars

\* the conversation loop of ask_hr_ai_agent_adk/agent.py, which has neither
\* the verification letter nor the legacy snapshot
NextAdk ==
    \/ ChatStartAdk /\ UNCHANGED <<pvars, evlvars, docvars, rvars, cvars>>
    \/ ModelResponds /\ UNCHANGED <<pvars, evlvars, docvars, rvars, cvars>>
    \/ DispatchToolAdk /\ UNCHANGED <<pvars, evlvars, docvars, rvars, cvars>>
    \/ ResetAuthCache /\ cpc = "idle" /\ UNCHANGED <<pvars, evlvars, docvars, rvars, cvars>>

SpecAdk == InitTurns /\ [][NextAdk]_vars

\* the document cache holding one generation at a time: a document is
\* generated into the empty cache, looked up, downloaded and cleared
InitDocs == InitChat /\ ~legacyFile /\ ~evlFlagFile

NextDocs ==
    \/ DocTick /\ UNCHANGED <<pvars, avars, rvars, cvars>>
    \/ GenerateDocx /\ document_cache = <<>> /\ UNCHANGED <<pvars, avars, rvars, cvars>>
    \/ GenerateAsPdf /\ document_cache = <<>> /\ UNCHANGED <<pvars, avars, rvars, cvars>>
    \/ LookupDoc /\ UNCHANGED <<pvars, avars, rvars, cvars>>
    \/ DownloadDoc /\ UNCHANGED <<pvars, avars, rvars, cvars>>
    \/ ClearDocument /\ UNCHANGED <<pvars, avars, rvars, cvars>>

SpecDocs == InitDocs /\ [][NextDocs]_vars

\* every request thread is idle
NoneInFlight == \A t \in Threads : epc[t] = "idle"

\* requests for the letter served one at a time, across resets and restarts
NextEvlSeq ==
    \/ \E t \in Threads : LetterRequest(t) /\ NoneInFlight /\ UNCHANGED <<pvars, docvars, rvars, cvars>>
    \/ \E t \in Threads : LetterToolCheck(t) /\ UNCHANGED <<pvars, docvars, rvars, cvars>>
    \/ \E t \in Threads : LetterRender(t) /\ UNCHANGED <<pvars, docvars, rvars, cvars>>
    \/ \E t \in Threads : LetterChatReturn(t) /\ UNCHANGED <<pvars, docvars, rvars, cvars>>
    \/ ResetAuthCache /\ NoneInFlight /\ UNCHANGED <<pvars, evlvars, docvars, rvars, cvars>>
    \/ Restart /\ UNCHANGED <<pvars, rvars, cvars>>

SpecEvlSeq == Init /\ [][NextEvlSeq]_vars

\* requests for the letter served by concurrent threads of one process
NextEvl ==
    \/ \E t \in Threads : LetterRequest(t) /\ UNCHANGED <<pvars, docvars, rvars, cvars>>
    \/ \E t \in Threads : LetterToolCheck(t) /\ UNCHANGED <<pvars, docvars, rvars, cvars>>
    \/ \E t \in Threads : LetterRender(t) /\ UNCHANGED <<pvars, docvars, rvars, cvars>>
    \/ \E t \in Threads : LetterChatReturn(t) /\ UNCHANGED <<pvars, docvars, rvars, cvars>>
    \/ ResetAuthCache /\ UNCHANGED <<pvars, evlvars, docvars, rvars, cvars>>

SpecEvl == Init /\ [][NextEvl]_vars

\* sessions of the RAG agent whose requests reach the tool service through
\* workday_chat
NextSessions ==
    \/ CreateSession /\ UNCHANGED <<pvars, avars, docvars, cvars>>
    \/ SendMessage /\ UNCHANGED <<pvars, avars, docvars, cvars>>
    \/ \E i \in 1..Len(requests) : RouterAnswers(i) /\ UNCHANGED <<pvars, avars, docvars, cvars>>
    \/ \E i \in 1..Len(requests) : WorkdayChat(i) /\ UNCHANGED <<pvars, evlvars, docvars, cvars>>
    \/ TurnModel /\ UNCHANGED <<pvars, evlvars, docvars, cvars>>
    \/ TurnDispatch /\ UNCHANGED <<pvars, evlvars, docvars, cvars>>
    \/ \E i \in 1..Len(requests) : ProxyReturns(i) /\ UNCHANGED <<pvars, avars, docvars, cvars>>

SpecSessions == InitTurns /\ [][NextSessions]_vars

\* the credential cache across starts of the serving process
NextRestart ==
    \/ Tick /\ UNCHANGED <<pvars, evlvars, docvars, rvars, cvars>>
    \/ CallGetWorkdayId /\ cpc = "idle" /\ UNCHANGED <<pvars, evlvars, docvars, rvars, cvars>>
    \/ Restart /\ UNCHANGED <<pvars, rvars, cvars>>

SpecRestart == Init /\ [][NextRestart]_vars

\* one credential request per thread, the threads running side by side in a
\* process that starts without a snapshot
NextThreads ==
    \/ Tick /\ UNCHANGED <<pvars, evlvars, docvars, rvars, cvars>>
    \/ \E t \in Threads : GetCached(t) /\ UNCHANGED <<pvars, sessvars, turnvars, evlvars, last, docvars, rvars, resetMemo, wvars, call>>
    \/ \E t \in Threads : ReadSnapshot(t) /\ UNCHANGED <<pvars, sessvars, turnvars, evlvars, last, docvars, rvars, resetMemo, wvars, call>>
    \/ \E t \in Threads : RunFlow(t) /\ UNCHANGED <<pvars, sessvars, turnvars, evlvars, last, docvars, rvars, resetMemo, wvars, call>>
    \/ \E t \in Threads : OpenSnapshot(t) /\ UNCHANGED <<pvars, sessvars, turnvars, evlvars, last, docvars, rvars, resetMemo, wvars, call>>
    \/ \E t \in Threads : DumpSnapshot(t) /\ UNCHANGED <<pvars, sessvars, turnvars, evlvars, last, docvars, rvars, resetMemo, wvars, call>>

SpecThreads == InitTurns /\ [][NextThreads]_vars

\* the turns of the conversation loop against a reasoning service that may
\* go on asking for tools; the loop itself keeps running.  The service asks
\* for tools that need no credential, so that every tool call can be served.
LoopTools == {"get_tenure_tool", "generate_employment_verification_letter_tool"}

AsksLoopTools == \A k \in 1..Len(pending') : pending'[k] \in LoopTools

\* the steps of a turn in progress
TurnSteps ==
    \/ ModelResponds /\ AsksLoopTools /\ UNCHANGED <<pvars, evlvars, docvars, rvars, cvars>>
    \/ FurtherCalls /\ AsksLoopTools /\ UNCHANGED <<pvars, evlvars, docvars, rvars, cvars>>
    \/ DispatchTool /\ UNCHANGED <<pvars, evlvars, docvars, rvars, cvars>>

NextLoop ==
    \/ ChatStart /\ Len(chat_history') = 1 /\ UNCHANGED <<pvars, evlvars, docvars, rvars, cvars>>
    \/ TurnSteps

SpecLoop == InitTurns /\ [][NextLoop]_vars /\ WF_vars(TurnSteps)

\* one call of get_auth_code; the call keeps running
AuthSteps ==
    /\ AuthStart \/ AuthGet \/ AuthLoop
    /\ UNCHANGED <<pvars, avars, docvars, rvars, tvars, resetMemo, call>>

NextAuthWait ==
    \/ AuthStart /\ UNCHANGED <<pvars, avars, docvars, rvars, tvars, resetMemo, call>>
    \/ AuthGet /\ UNCHANGED <<pvars, avars, docvars, rvars, tvars, resetMemo, call>>
    \/ AuthLoop /\ UNCHANGED <<pvars, avars, docvars, rvars, tvars, resetMemo, call>>

SpecAuthWait == InitTurns /\ [][NextAuthWait]_vars /\ WF_vars(AuthSteps)

-----------------------------------------------------------------------------
(* workday_api.py: submit_time_off_request builds the request's day entries *)

\* the first calendar year of the dates drawn as inputs
FirstYear == 2023

\* the number of calendar years the input dates are drawn from
MaxYears == 2

\* the longest leave request, in days after its first window day
MaxSpan == 5

Years == FirstYear .. (FirstYear + MaxYears - 1)

\* datetime: a year of the proleptic Gregorian calendar with a 29 February
IsLeap(year) == (year % 4 = 0 /\ year % 100 # 0) \/ year % 400 = 0

\* _days_in_month(year, month): the day number of the day before the first
\* of the next month
DaysInMonth(year, month) ==
    IF month = 2 THEN (IF IsLeap(year) THEN 29 ELSE 28)
    ELSE IF month \in {4, 6, 9, 11} THEN 30 ELSE 31

\* the dates datetime.strptime(s, "%Y-%m-%d") and date.fromisoformat accept
Dates ==
    {d \in [year : Years, month : 1..12, day : 1..31] :
        d.day <= DaysInMonth(d.year, d.month)}

\* current.strftime("%Y-%m-%d") / date.isoformat(): year, month and day
\* written in that order
FormatDate(d) == <<d.year, d.month, d.day>>

\* datetime.strptime(s, "%Y-%m-%d"): the date a well-formed string stands for
ParseDate(s) == [year |-> s[1], month |-> s[2], day |-> s[3]]

\* datetime comparison `a <= b`
DateLE(a, b) ==
    \/ a.year < b.year
    \/ a.year = b.year /\ a.month < b.month
    \/ a.year = b.year /\ a.month = b.month /\ a.day <= b.day

\* current + timedelta(days=1)
NextDay(d) ==
    IF d.day < DaysInMonth(d.year, d.month) THEN [d EXCEPT !.day = d.day + 1]
    ELSE IF d.month < 12 THEN [year |-> d.year, month |-> d.month + 1, day |-> 1]
    ELSE [year |-> d.year + 1, month |-> 1, day |-> 1]

\* d + timedelta(days=n)
RECURSIVE AddDays(_, _)
AddDays(d, n) == IF n = 0 THEN d ELSE AddDays(NextDay(d), n - 1)

\* the days of the years FirstYear .. year - 1
RECURSIVE DaysBeforeYear(_)
DaysBeforeYear(year) ==
    IF year <= FirstYear THEN 0
    ELSE DaysBeforeYear(year - 1) + (IF IsLeap(year - 1) THEN 366 ELSE 365)

\* the days of the months 1 .. month - 1 of a year
RECURSIVE DaysBeforeMonth(_, _)
DaysBeforeMonth(year, month) ==
    IF month = 1 THEN 0
    ELSE DaysBeforeMonth(year, month - 1) + DaysInMonth(year, month - 1)

\* date.toordinal(), counted from the first day of FirstYear: the value that
\* (a - b).days subtracts
ToOrdinal(d) == DaysBeforeYear(d.year) + DaysBeforeMonth(d.year, d.month) + d.day

\* the fixed business-process action of a time-off request
SubmitActionId == "d9e4223e446c11de98360015c5e6daf6"

\* the leave-type ids a request can name
TimeOffTypeIds == {"pto_type_id", "sick_type_id"}

\* the comment argument: None, an empty string, a text
Comments == {"None", "", "family event"}

\* `if comment:`
CommentGiven(comment) == comment \notin {"None", ""}

\* mutant: the last day of the range is left out
InRangeExclusive(current, end_dt) == DateLE(current, end_dt) /\ current # end_dt

\* `while current <= end_dt`
InRange(current, end_dt) == DateLE(current, end_dt)

\* one element of payload["days"]
DayEntry(current, time_off_type_id, quantity_per_day, comment) ==
    IF CommentGiven(comment)
    THEN [timeOffType |-> [id |-> time_off_type_id],
          date |-> FormatDate(current),
          dailyQuantity |-> quantity_per_day,
          comment |-> comment]
    ELSE [timeOffType |-> [id |-> time_off_type_id],
          date |-> FormatDate(current),
          dailyQuantity |-> quantity_per_day]

\* the loop that fills `days`, from `current` on
RECURSIVE DayEntries(_, _, _, _, _)
DayEntries(current, end_dt, time_off_type_id, quantity_per_day, comment) ==
    IF InRange(current, end_dt)
    THEN <<DayEntry(current, time_off_type_id, quantity_per_day, comment)>>
            \o DayEntries(NextDay(current), end_dt, time_off_type_id,
                          quantity_per_day, comment)
    ELSE <<>>

\* the JSON body submit_time_off_request posts
SubmitPayload(a) ==
    [days |-> DayEntries(ParseDate(a.start_date), ParseDate(a.end_date),
                         a.time_off_type_id, a.quantity_per_day, a.comment),
     businessProcessParameters |-> [action |-> [id |-> SubmitActionId]]]

\* the last days of the months: the windows the requests are drawn from
WindowStarts == {d \in Dates : d.day >= 27}

\* submit_time_off_request(..., time_off_type_id, start_date, end_date,
\* quantity_per_day, comment) up to the POST
CallSubmit ==
    /\ call.fn = "none"
    /\ \E w \in WindowStarts, i \in 0..MaxSpan, j \in 0..MaxSpan,
          id \in TimeOffTypeIds, q \in {4, 8}, c \in Comments :
          LET a == [start_date |-> FormatDate(AddDays(w, i)),
                    end_date |-> FormatDate(AddDays(w, j)),
                    time_off_type_id |-> id,
                    quantity_per_day |-> q,
                    comment |-> c]
          IN  call' = [fn |-> "submit_time_off_request", args |-> a,
                       res |-> SubmitPayload(a)]

NextSubmit ==
    CallSubmit /\ UNCHANGED <<pvars, avars, docvars, rvars, tvars, resetMemo, wvars>>

SpecSubmit == InitTurns /\ [][NextSubmit]_vars

\* the document cache filling up: documents of two filenames are generated
\* next to the entries already stored, looked up and cleared, and the
\* credentials are reset in between
FrameNames == {<<>>, <<"a", ".docx">>}

NextDocFrame ==
    \/ DocTick /\ UNCHANGED <<pvars, avars, rvars, cvars>>
    \/ GenerateDocx /\ docLast'.requested \in FrameNames /\ UNCHANGED <<pvars, avars, rvars, cvars>>
    \/ LookupDoc /\ UNCHANGED <<pvars, avars, rvars, cvars>>
    \/ ClearDocument /\ UNCHANGED <<pvars, avars, rvars, cvars>>
    \/ ResetAuthCache /\ cpc = "idle" /\ UNCHANGED <<pvars, evlvars, docvars, rvars, cvars>>

SpecDocFrame == InitDocs /\ [][NextDocFrame]_vars

\* reset_auth_cache called from another request while a chat turn is between
\* two of its steps; resetMemo keeps the credential memoized when it ran
ResetDuringTurn ==
    /\ cpc # "idle"
    /\ resetMemo = NoReset
    /\ ResetAuthCache
    /\ resetMemo' = memo

\* chat turns that a reset can cut into
NextResetRace ==
    \/ ChatStart /\ Len(chat_history') = 1 /\ resetMemo' = NoReset
          /\ UNCHANGED <<pvars, evlvars, docvars, rvars, tvars, wvars, call>>
    \/ ModelResponds /\ UNCHANGED <<pvars, evlvars, docvars, rvars, cvars>>
    \/ DispatchTool /\ UNCHANGED <<pvars, evlvars, docvars, rvars, cvars>>
    \/ ResetDuringTurn /\ UNCHANGED <<pvars, evlvars, docvars, rvars, tvars, wvars, call>>

SpecResetRace == InitTurns /\ [][NextResetRace]_vars

-----------------------------------------------------------------------------
(* workday_api.py: complete_oauth_flow between the code exchange and the stamp *)

\* timeout=30 of every requests.get of the flow, in seconds
FetchTimeout == 30

\* the requests.get calls that follow the code exchange: the three primary
\* endpoints, legalName, serviceDates, the balances, the eligible types
ProfileFetches == 7

\* the provider's expires_in, in seconds
ExpiresIn == {300, 3600}

\* how long one fetch takes: answered at once, or after the whole timeout
FetchTimes == {0, FetchTimeout}

RECURSIVE SumSeq(_)
SumSeq(q) == IF q = <<>> THEN 0 ELSE Head(q) + SumSeq(Tail(q))

\* complete_oauth_flow and the stamp of _get_cached_workday_data: the token
\* is issued at `issued`, the fetches run one after the other, and only then
\* result['_token_issued_at'] = time.time()
StampedRecord(issued, expires_in, fetches) ==
    [kind |-> "rec", tok |-> 1, ts |-> issued + SumSeq(fetches), exp |-> expires_in]

\* the flow runs: the provider issues the token at second 0
CompleteFlow ==
    /\ call.fn = "none"
    /\ \E e \in ExpiresIn, f \in [1..ProfileFetches -> FetchTimes] :
          call' = [fn |-> "complete_oauth_flow",
                   args |-> [issued |-> 0, expires_in |-> e, fetches |-> f],
                   res |-> StampedRecord(0, e, f)]

\* the moments a later request reads the snapshot at: the last second the
\* record counts as fresh, and the seconds around the token's expiry
ReadTimes(issued, rec) ==
    {rec.ts + rec.exp - SafetyMargin - 1, issued + rec.exp - 1, issued + rec.exp}

\* a later process reads the snapshot and judges it
JudgeSnapshot ==
    /\ call.fn = "complete_oauth_flow"
    /\ \E t \in ReadTimes(call.args.issued, call.res) :
          call' = [fn |-> "_get_cached_workday_data",
                   args |-> [issued |-> call.args.issued, rec |-> call.res, now |-> t],
                   res |-> IsFresh(call.res, t)]

NextStamp ==
    \/ CompleteFlow /\ UNCHANGED <<pvars, avars, docvars, rvars, tvars, resetMemo, wvars>>
    \/ JudgeSnapshot /\ UNCHANGED <<pvars, avars, docvars, rvars, tvars, resetMemo, wvars>>

SpecStamp == InitTurns /\ [][NextStamp]_vars

-----------------------------------------------------------------------------
(* agent.py: _calculate_tenure *)

\* _calculate_tenure(hire_date_str, as_of) for a well-formed hire date:
\* ValueError for a hire date after as_of; otherwise the differences of the
\* years, months and days, a negative day difference borrowing the length of
\* the month before as_of's and a negative month difference borrowing a year
calculate_tenure(hire_date_str, as_of) ==
    LET hire_dt == ParseDate(hire_date_str)
        years0 == as_of.year - hire_dt.year
        months0 == as_of.month - hire_dt.month
        days0 == as_of.day - hire_dt.day
        prev_month == IF as_of.month - 1 # 0 THEN as_of.month - 1 ELSE 12
        prev_year == IF as_of.month = 1 THEN as_of.year - 1 ELSE as_of.year
        months1 == IF days0 < 0 THEN months0 - 1 ELSE months0
        days == IF days0 < 0 THEN days0 + DaysInMonth(prev_year, prev_month) ELSE days0
        years == IF months1 < 0 THEN years0 - 1 ELSE years0
        months == IF months1 < 0 THEN months1 + 12 ELSE months1
    IN  IF ~DateLE(hire_dt, as_of)
        THEN [raised |-> "ValueError"]
        ELSE [raised |-> "no",
              hire_date |-> FormatDate(hire_dt),
              as_of_date |-> FormatDate(as_of),
              years |-> years,
              months |-> months,
              days |-> days,
              total_days |-> ToOrdinal(as_of) - ToOrdinal(hire_dt)]

\* the hire dates and the days a tenure is asked on: the first, the middle
\* and the last days of every month
TenureDates == {d \in Dates : d.day \in {1, 15} \/ d.day >= 28}

\* _calculate_tenure is called
CallTenure ==
    /\ call.fn = "none"
    /\ \E h \in TenureDates, a \in TenureDates :
          call' = [fn |-> "_calculate_tenure",
                   args |-> [hire_date_str |-> FormatDate(h), as_of |-> a],
                   res |-> calculate_tenure(FormatDate(h), a)]

NextTenure ==
    CallTenure /\ UNCHANGED <<pvars, avars, docvars, rvars, tvars, resetMemo, wvars>>

SpecTenure == InitTurns /\ [][NextTenure]_vars

-----------------------------------------------------------------------------
(* Claims about the retry/backoff proxy *)

\* C3: one call of WorkdayToolsService.chat issues at most 2 HTTP attempts,
\* whatever the attempts' outcomes, the budget and the snapshot file's state.
C3_AtMostTwoAttempts == posts <= 2

\* C3 witness: the sentinel was returned after two failed attempts.
C3_Witness == ppc = "returned" /\ presult = "sentinel" /\ posts = 2

C5_NeverRaises ==
    /\ ppc # "raised"
    /\ (ppc = "returned") => (presult \in {"reply", "sentinel"})
    /\ (presult = "sentinel") => (posts >= 1 /\ lastOutcome # "ok")
    /\ (presult = "reply") => (lastOutcome = "ok")

\* C5 witness: the sentinel was returned after a 2xx response with an
\* unparsable body.
C5_Witness == ppc = "returned" /\ presult = "sentinel" /\ lastOutcome = "bad_body"

-----------------------------------------------------------------------------
(* Claims about the credential cache *)

\* the operations that make a credential request
CredOps == {"get_workday_id", "check_valid_dates", "submit_time_off"}

C7_NeverReturnsStale ==
    (last.op \in CredOps /\ last.how \in {"memo", "snapshot"}) =>
        (last.at - last.rec.ts < last.rec.exp - 120)

\* C8 as claimed: when check_valid_dates or submit_time_off met a 401/403 of
\* the HR API, the memo is cleared and the snapshot removed when it returns.
C8_CacheEmptyAfterUnauthorized ==
    (last.op \in {"check_valid_dates", "submit_time_off"} /\ last.hr = "unauthorized") =>
        (memo = NoRecord /\ snapshot = Absent)

\* C9: when the authorization flow raised during a credential request, the
\* request failed without a record, nothing is memoized, the snapshot file is
\* as it was, and the next credential request has to run the flow again.
C9_FailedFlowLeavesNothing ==
    (last.op \in CredOps /\ last.how = "flow_raised") =>
        /\ last.rec = NoRecord
        /\ last.res \in {"error", "auth_error", "auth_expired"}
        /\ memo = NoRecord
        /\ snapshot = last.snapBefore
        /\ ~(snapshot.kind = "rec" /\ now - snapshot.ts < snapshot.exp - 120)

\* C9 witness: the flow raised while a stale snapshot was on disk.
C9_Witness ==
    last.op \in CredOps /\ last.how = "flow_raised" /\ last.snapBefore.kind = "rec"

-----------------------------------------------------------------------------
(* Claims about the conversation loop and the reset *)

\* C1 as claimed: submit_time_off_tool is dispatched in a turn only if the
\* turn's user message is a confirmation token and the preceding model turn
\* showed a summary.
C1_SubmitOnlyAfterConfirmation ==
    (submits > 0) => (turnMsg \in ConfirmationTokens /\ summaryBefore)

\* C2 as claimed: a turn that follows a shown summary, carries a confirmation
\* token and ended with the model's answer invoked submit_time_off_tool
\* exactly once.
C2_ExactlyOneSubmit ==
    (cpc = "idle" /\ last.op = "chat" /\ last.res = "text"
     /\ summaryBefore /\ turnMsg \in ConfirmationTokens) => (submits = 1)

\* C10 as claimed: when reset_auth_cache returned True, the memo, both
\* snapshot files, the history, the user context, the submission flag, the
\* letter flag and its sentinel file are all cleared.
C10_ResetTrueClearsAll ==
    (last.op = "reset" /\ last.res = "True") =>
        /\ memo = NoRecord
        /\ snapshot = Absent
        /\ ~legacyFile
        /\ chat_history = <<>>
        /\ ~user_context
        /\ ~submission_complete
        /\ ~evl_sent_to_hr
        /\ ~evlFlagFile

-----------------------------------------------------------------------------
(* Claims about the one-shot verification letter *)

\* C11 as claimed: once a letter was generated, no later request gets past
\* the flag tests to the renderer and no second letter is rendered, unless
\* /reset was called in between; restarts of the process included.
C11_NoSecondLetter ==
    (letters >= 1) => (letters = 1 /\ \A t \in Threads : epc[t] # "render")

\* C12: a chat request for the letter made while the flag is set (the boolean
\* or the sentinel file) is answered with the already-sent message in that
\* very step: the reasoning service is not called, and the history, the
\* submission flag and the credential cache are as they were.
C12_FastPathFrame ==
    [][(/\ cpc = "idle"
        /\ turns' = turns + 1
        /\ turnMsg' = "verification letter"
        /\ (evl_sent_to_hr \/ evlFlagFile))
       => (/\ last'.op = "chat"
           /\ last'.res = "evl_already"
           /\ cpc' = "idle"
           /\ iters' = 0
           /\ chat_history' = chat_history
           /\ submission_complete' = submission_complete
           /\ memo' = memo
           /\ snapshot' = snapshot
           /\ auths' = auths
           /\ renders' = renders)]_vars

\* C12 witness: the already-sent answer was given while a history, a raised
\* submission flag and a memoized credential were there to be kept.
C12_Witness ==
    /\ last.op = "chat" /\ last.res = "evl_already"
    /\ Len(chat_history) > 1
    /\ submission_complete
    /\ memo.kind = "rec"

C14_AtMostOneLetter == letters <= 1

\* C15: document cache round trip. After a successful generation the lookup
\* of the returned key yields exactly the bytes the generator stored, and the
\* filename lookup yields the filename stored with them: the requested name
\* sanitized, free of the characters < > : " / \ | ? * and still recognizable
\* (its other characters, blanks and extension aside, are kept in order).
C15_DocumentRoundTrip ==
    (docLast.op = "generate" /\ docLast.res = "ok") =>
        LET kept(n) == SelectSeq(n, LAMBDA c :
                           c \notin InvalidChars
                               \cup {" ", "_", ".docx", ".DOCX", ".pdf"})
            stored == get_document_filename_from_cache(docLast.key)
        IN  /\ get_document_from_cache(docLast.key) = docLast.bytes
            /\ docLast.bytes.some
            /\ stored = docLast.filename
            /\ stored.some
            /\ \A i \in 1..Len(stored.val) : stored.val[i] \notin InvalidChars
            /\ kept(docLast.requested) # <<>>
                   => kept(stored.val) = kept(docLast.requested)

\* a letter named after a legal name holding a quote was generated as PDF
C15_Witness ==
    /\ docLast.op = "generate" /\ docLast.res = "ok"
    /\ \E i \in 1..Len(docLast.requested) : docLast.requested[i] \in InvalidChars
    /\ get_document_from_cache(docLast.key) = Some("pdf")
    /\ get_document_filename_from_cache(docLast.key)
           = Some(<<"E", "V", "L", " ", "-", " ", "O", "B", ".pdf">>)

\* C16: a lookup of a key that is not in the cache (never issued, or cleared)
\* returns None for the document and for the filename, and the download route
\* answers 404 for it; a key that is in the cache yields its document, which
\* is not None even when the document is empty, and the route answers 200.
C16_AbsentIsNotEmpty ==
    LET k == docLast.key
        present == k \in DOMAIN document_cache
    IN  /\ (docLast.op = "lookup" /\ ~present)
               => docLast.bytes = NoneValue /\ docLast.filename = NoneValue
        /\ (docLast.op = "download" /\ ~present) => docLast.res = "404"
        /\ (docLast.op \in {"lookup", "download"} /\ present)
               => /\ docLast.bytes = Some(document_cache[k].bytes)
                  /\ docLast.bytes # NoneValue
                  /\ docLast.op = "download" => docLast.res = "200"

\* the download of a cleared key answered 404 while an empty document is held
C16_Witness ==
    /\ docLast.op = "download" /\ docLast.res = "404"
    /\ docLast.key # NeverIssued
    /\ \E k \in DOMAIN document_cache : document_cache[k].bytes = ""

\* C17: every tool of the schema handed to the reasoning service is executed
\* when a tool call names it: no result in the history answers a call of a
\* schema tool with the unknown-tool error.
C17_SchemaToolsAreDispatched ==
    \A i \in 1..Len(chat_history) :
        (chat_history[i].kind = "result" /\ chat_history[i].name \in ToolNames)
            => chat_history[i].res # "unknown_tool"

\* C18: the tool calls c1..cn of a model response run in request order, and
\* when the reasoning service is called again the history ends with the
\* model's tool-call turn followed by exactly n result turns, the i-th tagged
\* with the name of ci; while the calls are being dispatched the results so
\* far follow the tool-call turn in order and the calls still to run are the
\* rest of the request, in order.
C18_ResultsFollowCalls ==
    (cpc = "dispatch" \/ (cpc = "model" /\ iters > 0)) =>
        \E j \in 1..Len(chat_history) :
            LET batch == chat_history[j].calls
                ran == Len(chat_history) - j
            IN  /\ chat_history[j].kind = "calls"
                /\ ran + Len(pending) = Len(batch)
                /\ \A i \in 1..ran : /\ chat_history[j + i].kind = "result"
                                     /\ chat_history[j + i].name = batch[i]
                /\ \A i \in 1..Len(pending) : pending[i] = batch[ran + i]

\* C19: whenever the reasoning service is about to be called, the history
\* handed to it is non-empty and its first element is a user turn that
\* carries the user-profile context block.
C19_HistoryStartsWithContext ==
    (cpc = "model") =>
        /\ Len(chat_history) > 0
        /\ chat_history[1].kind = "user"
        /\ chat_history[1].flag

\* C20: the history is emptied only by an explicit reset or following a leave
\* submission that succeeded: a step that shortens the history is a reset or
\* follows a submit result reporting success; the turn after a successful
\* submission starts from an empty history; the turn after a turn whose
\* submit results all report a failure carries the history on.
C20_FailedSubmitKeepsHistory ==
    [][LET isSubmit(i) == /\ chat_history[i].kind = "result"
                          /\ chat_history[i].name = "submit_time_off_tool"
           submitted == \E i \in 1..Len(chat_history) :
                            isSubmit(i) /\ chat_history[i].res = "submitted"
           failed == /\ \E i \in 1..Len(chat_history) : isSubmit(i)
                     /\ ~submitted
           turnStarts == cpc = "idle" /\ cpc' = "model"
       IN  /\ Len(chat_history') < Len(chat_history)
                  => last'.op = "reset" \/ submitted
           /\ (turnStarts /\ submitted) => Len(chat_history') = 1
           /\ (turnStarts /\ failed)
                  => chat_history' = Append(chat_history, chat_history'[Len(chat_history')])
      ]_vars

-----------------------------------------------------------------------------
(* Claims about errors *)

\* C21: no tool function handed to the dispatch loop raises: whatever the
\* credential cache and the HR API do, and whatever the profile holds, each
\* returns a payload.
C21_ToolsNeverRaise ==
    (last.op \in {"get_workday_id", "check_valid_dates", "submit_time_off",
                  "get_tenure", "letter_tool"})
        => last.res # "raised"

\* C22: an error of a chat request that is neither rate limiting nor an
\* expired authentication reaches the user as a generic apology only:
\* chat_with_workday returns instead of raising, and the answer of the chat
\* route carries no text of the exception.
C22_OtherErrorsBecomeApology ==
    (last.op = "chat" /\ last.how = "failure") =>
        /\ last.res # "raised"
        /\ ChatRoute(last.res).status = "200"
        /\ ChatRoute(last.res).body # "exception_text"

\* C23: when a generate_content call fails with a rate/quota error, the
\* turn ends with the fixed out-of-capacity reply and nothing is raised, at
\* whichever call of the turn the failure happens.
C23_QuotaBecomesCapacityReply ==
    (last.op = "chat" /\ last.how = "quota") =>
        /\ last.res = "capacity"
        /\ ChatRoute(last.res) = [status |-> "200", body |-> "capacity"]
        /\ cpc = "idle"

\* the quota error met the second call of a turn, after a batch of tools ran
C23_Witness ==
    /\ last.op = "chat" /\ last.how = "quota" /\ last.res = "capacity"
    /\ iters = 2
    /\ chat_history[Len(chat_history)].kind = "result"

\* C24: arguments that do not validate (the credential was obtained and the
\* HR API was not called) come back from check_valid_dates and
\* submit_time_off as a validation failure, not as an authentication
\* failure, and the credential stays memoized.
C24_ValidationErrorKeepsCredential ==
    (/\ last.op \in {"check_valid_dates", "submit_time_off"}
     /\ last.how \in {"memo", "snapshot", "flow"}
     /\ last.hr = "none")
        => /\ last.res = "validation_error"
           /\ memo = last.rec


\* C25: when the POST of a submission times out, the submit tool's result in
\* the history is the failure payload (success false, 'Request timeout'), not
\* a success; nothing is raised, the turn goes on, and once the batch is
\* through the loop is back at the generate_content call with that history
C25_TimeoutBecomesFailureResult ==
    (/\ last.op = "chat" /\ last.hr = "timeout"
     /\ Len(chat_history) > 0
     /\ chat_history[Len(chat_history)].kind = "result"
     /\ chat_history[Len(chat_history)].name = "submit_time_off_tool")
        => /\ chat_history[Len(chat_history)] = ToolResult("submit_time_off_tool", "timeout")
           /\ ~SubmitSucceeded(chat_history[Len(chat_history)].res)
           /\ last.res = "pending"
           /\ cpc = IF pending = <<>> THEN "model" ELSE "dispatch"

C25_Witness ==
    /\ last.op = "chat" /\ last.hr = "timeout" /\ last.res = "pending"
    /\ cpc = "model"
    /\ chat_history[Len(chat_history)] = ToolResult("submit_time_off_tool", "timeout")

-----------------------------------------------------------------------------
(* Claims about the handling of a model response *)

\* C26: a response that contains text ends the turn: the text is the last
\* element of the history and is returned, and none of the function calls the
\* response may carry is dispatched
C26_TextEndsTheTurn ==
    (last.op = "chat" /\ last.res = "text") =>
        /\ cpc = "idle"
        /\ pending = <<>>
        /\ Len(chat_history) > 0
        /\ chat_history[Len(chat_history)].kind = "text"

C26_Witness ==
    /\ last.op = "chat" /\ last.res = "text" /\ last.how = "text_and_calls"
    /\ cpc = "idle"
    /\ chat_history[Len(chat_history)].kind = "text"

\* C27: a response with neither text nor a function call (no candidate, or a
\* candidate without a usable part) ends the turn with the fallback apology:
\* nothing is dispatched, nothing is raised, the model is not called again
C27_NothingUsableBecomesFallback ==
    (last.op = "chat" /\ last.how \in {"empty", "blank"}) =>
        /\ last.res = "fallback"
        /\ cpc = "idle"
        /\ pending = <<>>

-----------------------------------------------------------------------------
(* Claims about sessions *)

\* C28: sessions are isolated: a session's history holds only its own
\* requests, and the history the tool service is about to give the model
\* holds only entries of turns of the session whose request it is serving
C28_SessionsAreIsolated ==
    /\ \A s \in DOMAIN sessions : \A k \in 1..Len(sessions[s]) :
          requests[sessions[s][k].req].sid = s
    /\ (cpc = "model" /\ Len(owners) = Len(chat_history)) =>
          \A k \in 1..Len(owners) : requests[owners[k]].sid = requests[Serving].sid

\* C29: within one session the turns are FIFO: in the session's history and
\* in the tool service's history the entries of a request come together and
\* the requests of a session come in the order they arrived
C29_TurnsAreFifo ==
    /\ \A s \in DOMAIN sessions : \A j, k \in 1..Len(sessions[s]) :
          j < k => sessions[s][j].req <= sessions[s][k].req
    /\ \A j, k \in 1..Len(owners) :
          (j < k /\ requests[owners[j]].sid = requests[owners[k]].sid)
              => owners[j] <= owners[k]

-----------------------------------------------------------------------------
(* Claims about the credential snapshot across processes *)

\* C30: the first credential request of a process that was started while a
\* fresh snapshot was on disk is served from that snapshot, and the
\* authorization flow does not run
C30_FreshSnapshotSkipsFlow ==
    [][(/\ last.op = "restart"
        /\ last.snapBefore.kind = "rec"
        /\ IsFresh(last.snapBefore, now)
        /\ last'.op = "get_workday_id")
          => (last'.how = "snapshot" /\ auths' = auths)]_vars

-----------------------------------------------------------------------------
(* Claims about concurrent credential requests *)

\* C31: the snapshot is replaced atomically: whenever the file exists, it
\* holds a complete record (the previous one or the new one)
C31_SnapshotReplacedAtomically ==
    TokenCacheExists => snapshot.kind = "rec"

\* C38: when the credential requests of two threads have both returned, the
\* authorization flow has run once, both hold the same record, and the
\* snapshot on disk is the memoized record
C38_OneFlowForOverlappingRequests ==
    (\A t \in Threads : gpc[t] = "done") =>
        /\ auths <= 1
        /\ \A t, u \in Threads : grec[t] = grec[u]
        /\ snapshot = memo

-----------------------------------------------------------------------------
(* Claims about the proxy's second attempt *)

\* C32: after the first failed attempt the proxy returns the sentinel without
\* a second attempt when the deadline has passed; with the snapshot absent it
\* polls every 2 s, goes to the second attempt once the file is there before
\* the deadline and returns the sentinel once the deadline has passed; with
\* the snapshot present it pauses 2 s and goes to the second attempt
C32_SecondAttempt ==
    [][/\ (ppc = "decide" /\ attempts = 0 /\ ppc' # ppc) =>
             IF pnow >= deadline
               THEN ppc' = "returned" /\ presult' = "sentinel" /\ posts' = posts
             ELSE IF tokenCacheFile
               THEN /\ ppc' = "head" /\ attempts' = 1
                    /\ pnow' = pnow + RetryPause * TicksPerSec
             ELSE ppc' = "poll" /\ attempts' = 0 /\ pnow' = pnow
       /\ (ppc = "poll" /\ (ppc' # ppc \/ pnow' # pnow)) =>
             IF pnow >= deadline
               THEN ppc' = "returned" /\ presult' = "sentinel" /\ posts' = posts
             ELSE IF tokenCacheFile
               THEN ppc' = "head" /\ attempts' = 1 /\ pnow' = pnow
             ELSE /\ ppc' = "poll" /\ posts' = posts
                  /\ pnow' = pnow + PollInterval * TicksPerSec
       /\ (posts' = 2 /\ posts = 1) => (attempts = 1 /\ ppc = "post")]_vars

\* C32 witness: the first attempt failed with the snapshot absent, and the
\* proxy is in its polling loop before the deadline with the file now there
C32_Witness ==
    /\ ppc = "poll" /\ posts = 1 /\ attempts = 0
    /\ tokenCacheFile
    /\ pnow < deadline

-----------------------------------------------------------------------------
(* Claims about termination *)

\* C33: every turn of chat_with_workday ends, whatever the reasoning service
\* answers
C33_EveryTurnEnds == (cpc # "idle") ~> (cpc = "idle")

\* C34: the wait for the browser authorization ends: with the code when the
\* redirect carries one, with an authorization error when it carries an
\* error, else with TimeoutError once the ceiling has elapsed (at most one
\* read and one sleep later), also when every read of the URL fails; however
\* it ends, no browser session stays open
C34_AuthWaitEnds ==
    /\ [](wpc = "done" =>
            /\ wdriver # "open"
            /\ wres \in {"code", "ValueError", "TimeoutError", "RuntimeError",
                         "WebDriverException"}
            /\ (wurl = "redirect_code") <=> (wres = "code")
            /\ (wurl = "redirect_error") <=> (wres = "ValueError")
            /\ (wres = "TimeoutError") =>
                  /\ wclock >= wceil * HalfPerSec
                  /\ wclock <= wceil * HalfPerSec + MaxReadTime)
    /\ [](wpc = "loop" => wdriver = "open")
    /\ (wpc # "idle") ~> (wpc = "done")

\* C34 witness: every read of the URL failed up to the ceiling and the wait
\* ended with TimeoutError and the browser closed
C34_Witness ==
    /\ wpc = "done" /\ wres = "TimeoutError" /\ wurl = "read_error"
    /\ wceil > 0 /\ wdriver = "closed"


\* ---- Claims about the day entries of a time-off request ----

\* C35: for a start date not after the end date, the posted payload holds one
\* day entry per calendar day from start to end inclusive, in ascending order
\* (end - start + 1 entries), each with the request's leave-type id and hours
\* per day, with the comment when one is given and without one when none is
\* passed, next to the fixed business-process action id.
C35_OneEntryPerDay ==
    (/\ call.fn = "submit_time_off_request"
     /\ DateLE(ParseDate(call.args.start_date), ParseDate(call.args.end_date)))
        => LET a == call.args
               days == call.res.days
               first == ToOrdinal(ParseDate(a.start_date))
               last_day == ToOrdinal(ParseDate(a.end_date))
           IN  /\ Len(days) = last_day - first + 1
               /\ \A i \in 1..Len(days) :
                     /\ ParseDate(days[i].date).month \in 1..12
                     /\ ParseDate(days[i].date).day \in
                           1..DaysInMonth(ParseDate(days[i].date).year,
                                          ParseDate(days[i].date).month)
                     /\ ToOrdinal(ParseDate(days[i].date)) = first + i - 1
                     /\ days[i].timeOffType.id = a.time_off_type_id
                     /\ days[i].dailyQuantity = a.quantity_per_day
                     /\ CommentGiven(a.comment) =>
                           /\ "comment" \in DOMAIN days[i]
                           /\ days[i].comment = a.comment
                     /\ a.comment = "None" => "comment" \notin DOMAIN days[i]
               /\ call.res.businessProcessParameters.action.id
                     = "d9e4223e446c11de98360015c5e6daf6"

\* C35 witness: a commented request from 28 February to 2 March of a leap
\* year was built with its four day entries.
C35_Witness ==
    /\ call.fn = "submit_time_off_request"
    /\ call.args.start_date = <<2024, 2, 28>>
    /\ call.args.end_date = <<2024, 3, 2>>
    /\ CommentGiven(call.args.comment)
    /\ Len(call.res.days) = 4
    /\ call.res.days[2].date = <<2024, 2, 29>>


\* ---- Claims about the lifetime of a document cache entry ----

\* C36: an entry of the document cache stays under its key with the same
\* bytes and filename across every later step (a generation, a lookup, an
\* auth reset) that is not clear_document_cache of that key.
C36_EntriesStayUntilCleared ==
    [][\A k \in DOMAIN document_cache :
          (docLast'.op = "clear" /\ docLast'.key = k)
          \/ (k \in DOMAIN document_cache' /\ document_cache'[k] = document_cache[k])]_vars


\* ---- Claims about a reset that overlaps a chat turn ----

\* C37: when reset_auth_cache ran while a chat turn was in progress, then
\* once the turn has ended the chat history holds no entry of that turn and
\* the credential memo does not hold the credential memoized before the reset.
C37_ResetWinsOverTurn ==
    (cpc = "idle" /\ resetMemo # NoReset)
        => /\ chat_history = <<>>
           /\ resetMemo.kind # "none" => memo # resetMemo


\* ---- Claims about the age of a record judged fresh ----

\* C39: whenever a credential request judges a stored record fresh, the
\* access token has not expired at the provider: the reading of the clock is
\* earlier than the token's issue time plus expires_in.
C39_FreshMeansUnexpired ==
    (call.fn = "_get_cached_workday_data" /\ call.res = TRUE)
        => call.args.now < call.args.issued + call.args.rec.exp


\* ---- Claims about the tenure calculation ----

\* the number of days from one date to a later one, counted day by day
RECURSIVE DaysFrom(_, _)
DaysFrom(a, b) == IF a = b THEN 0 ELSE 1 + DaysFrom(NextDay(a), b)

\* C40: for a hire date not after the as-of date the tenure has years >= 0,
\* months within 0..11, days >= 0 and total_days equal to the number of days
\* between the two dates; a hire date after the as-of date is rejected.
C40_TenureIsWellFormed ==
    call.fn = "_calculate_tenure"
        => LET hire == ParseDate(call.args.hire_date_str)
               as_of == call.args.as_of
           IN  IF DateLE(hire, as_of)
               THEN /\ call.res.raised = "no"
                    /\ call.res.years >= 0
                    /\ call.res.months \in 0..11
                    /\ call.res.days >= 0
                    /\ call.res.total_days = DaysFrom(hire, as_of)
               ELSE call.res.raised = "ValueError"

====
